---- MODULE Spec2Model ----
(***************************************************************************)
(* Extraction-and-reconciliation engine of lioncrest-server:               *)
(* llm_utils/data_extractor/extractor.py (DataExtractor, the field-name    *)
(* normalizer and the record diff), the pydantic schemas under             *)
(* llm_utils/schemas/ and the provider client of llm_utils/llm_utils.py.   *)
(*                                                                         *)
(* Python strings that the code inspects character by character (field     *)
(* aliases, dictionary keys) are sequences of one-character strings;       *)
(* strings that the code only compares or copies are TLA+ strings.         *)
(***************************************************************************)
EXTENDS Integers, Sequences, FiniteSets, TLC

(***************************************************************************)
(* Bounds of the model.                                                    *)
(***************************************************************************)
MaxDiffKeys == 3
MaxExistingKeys == 2
MaxPayloadKeys == 2
MaxPriorKeys == 1

\* accesses of the column-title cache by one thread
MaxAccesses == 2

\* concurrent calls on one DataExtractor
MaxCalls == 2

\* items of a list value given to _format_column_value
MaxListLen == 2

(***************************************************************************)
(* Python str methods used by the extractor.                               *)
(***************************************************************************)
UpperChars ==
  <<"A","B","C","D","E","F","G","H","I","J","K","L","M",
    "N","O","P","Q","R","S","T","U","V","W","X","Y","Z">>

LowerChars ==
  <<"a","b","c","d","e","f","g","h","i","j","k","l","m",
    "n","o","p","q","r","s","t","u","v","w","x","y","z">>

Whitespace == {" ", "\t", "\n"}

\* the lowercase letter of each uppercase letter
LowerOf ==
  [c \in {UpperChars[i] : i \in 1..Len(UpperChars)} |->
     LowerChars[CHOOSE i \in 1..Len(UpperChars) : UpperChars[i] = c]]

\* str.lower() on one character
LowerChar(c) == IF c \in DOMAIN LowerOf THEN LowerOf[c] ELSE c

\* str.lower()
lower(s) == [i \in 1..Len(s) |-> LowerChar(s[i])]

\* str.strip(): drops leading and trailing whitespace
strip(s) ==
  LET keep == {i \in 1..Len(s) : s[i] \notin Whitespace}
  IN  IF keep = {} THEN <<>>
      ELSE LET first == CHOOSE i \in keep : \A j \in keep : i <= j
               last  == CHOOSE i \in keep : \A j \in keep : j <= i
           IN  SubSeq(s, first, last)

\* s.split(sep)[0]: the part of s before the first occurrence of sep
split_first(s, sep) ==
  LET hits == {i \in 1..Len(s) : s[i] = sep}
  IN  IF hits = {} THEN s
      ELSE SubSeq(s, 1, (CHOOSE i \in hits : \A j \in hits : i <= j) - 1)

(***************************************************************************)
(* Python values held by flat records: None, str, int and list.  Every     *)
(* value has the same record shape so that any two values can be compared. *)
(***************************************************************************)
PyNone == [tag |-> "none", s |-> "", n |-> 0, l |-> <<>>]
PyStr(x) == [tag |-> "str", s |-> x, n |-> 0, l |-> <<>>]
PyInt(i) == [tag |-> "int", s |-> "", n |-> i, l |-> <<>>]
\* a list of scalars; xs is a sequence of values
PyList(xs) == [tag |-> "list", s |-> "", n |-> 0, l |-> [i \in 1..Len(xs) |-> [tag |-> xs[i].tag, s |-> xs[i].s, n |-> xs[i].n]]]

(***************************************************************************)
(* Python dict: insertion-ordered sequence of entries with distinct keys.  *)
(***************************************************************************)
EmptyDict == <<>>

DictKeys(d) == {d[i].k : i \in 1..Len(d)}

DictHas(d, key) == \E i \in 1..Len(d) : d[i].k = key

\* d[key], for a key of d
DictAt(d, key) == d[CHOOSE i \in 1..Len(d) : d[i].k = key].v

\* d.get(key): None when the key is absent
DictGet(d, key) == IF DictHas(d, key) THEN DictAt(d, key) ELSE PyNone

\* d[key] = value: replaces the value in place, or appends a new entry
DictSet(d, key, value) ==
  IF DictHas(d, key)
  THEN [i \in 1..Len(d) |-> IF d[i].k = key THEN [k |-> key, v |-> value] ELSE d[i]]
  ELSE Append(d, [k |-> key, v |-> value])

\* dict == dict: same keys with equal values, whatever the insertion order
DictEq(a, b) ==
  /\ DictKeys(a) = DictKeys(b)
  /\ \A key \in DictKeys(a) : DictAt(a, key) = DictAt(b, key)

\* the entries of a well-formed dict have distinct keys
IsDict(d) == \A i, j \in 1..Len(d) : d[i].k = d[j].k => i = j

(***************************************************************************)
(* Field names and aliases of the four schemas, as character sequences.    *)
(***************************************************************************)
A_Amount == <<"A","m","o","u","n","t"," ","$">>
A_CEO_Primary_Contact == <<"C","E","O","/"," ","P","r","i","m","a","r","y"," ","C","o","n","t","a","c","t">>
A_Check_Size == <<"C","h","e","c","k"," ","S","i","z","e">>
A_City == <<"C","i","t","y">>
A_Company == <<"C","o","m","p","a","n","y">>
A_Company_name == <<"C","o","m","p","a","n","y"," ","n","a","m","e">>
A_Country == <<"C","o","u","n","t","r","y">>
A_DEI == <<"D","E","I">>
A_Date == <<"D","a","t","e">>
A_Date_Last_Contact == <<"D","a","t","e"," ","(","L","a","s","t"," ","C","o","n","t","a","c","t",")">>
A_Date_Last_Met == <<"D","a","t","e"," ","(","L","a","s","t"," ","M","e","t",")">>
A_Date_Sourced == <<"D","a","t","e"," ","S","o","u","r","c","e","d">>
A_Email == <<"E","m","a","i","l">>
A_Equity_Debt == <<"E","q","u","i","t","y","/"," ","D","e","b","t">>
A_Evaluation == <<"E","v","a","l","u","a","t","i","o","n">>
A_Files == <<"F","i","l","e","s">>
A_Financing_Round == <<"F","i","n","a","n","c","i","n","g"," ","R","o","u","n","d">>
A_Follow_Up_date == <<"F","o","l","l","o","w"," ","U","p"," ","d","a","t","e">>
A_Fund == <<"F","u","n","d">>
A_Industry_Focus == <<"I","n","d","u","s","t","r","y"," ","F","o","c","u","s">>
A_Investor_Type == <<"I","n","v","e","s","t","o","r"," ","T","y","p","e">>
A_Last_Reach_Out == <<"L","a","s","t"," ","R","e","a","c","h"," ","O","u","t">>
A_LinkedIn == <<"L","i","n","k","e","d","I","n">>
A_Name == <<"N","a","m","e">>
A_Name_of_Contact == <<"N","a","m","e"," ","o","f"," ","C","o","n","t","a","c","t">>
A_Name_of_Referral == <<"N","a","m","e"," ","o","f"," ","R","e","f","e","r","r","a","l">>
A_Notes == <<"N","o","t","e","s">>
A_Phone == <<"P","h","o","n","e">>
A_Referral_Source == <<"R","e","f","e","r","r","a","l"," ","S","o","u","r","c","e">>
A_Revenue_Run_Rate == <<"R","e","v","e","n","u","e"," ","R","u","n"," ","R","a","t","e">>
A_Sent_Email == <<"S","e","n","t"," ","E","m","a","i","l","?">>
A_Sourced_By == <<"S","o","u","r","c","e","d"," ","B","y">>
A_Stage == <<"S","t","a","g","e">>
A_State == <<"S","t","a","t","e">>
A_Status == <<"S","t","a","t","u","s">>
A_Title == <<"T","i","t","l","e">>
A_Upcoming_Meeting == <<"U","p","c","o","m","i","n","g"," ","M","e","e","t","i","n","g">>
F_amount == <<"a","m","o","u","n","t">>
F_ceo_primary_contact == <<"c","e","o","_","p","r","i","m","a","r","y","_","c","o","n","t","a","c","t">>
F_check_size == <<"c","h","e","c","k","_","s","i","z","e">>
F_city == <<"c","i","t","y">>
F_company == <<"c","o","m","p","a","n","y">>
F_country == <<"c","o","u","n","t","r","y">>
F_date == <<"d","a","t","e">>
F_date_last_contact == <<"d","a","t","e","_","l","a","s","t","_","c","o","n","t","a","c","t">>
F_date_last_met == <<"d","a","t","e","_","l","a","s","t","_","m","e","t">>
F_date_sourced == <<"d","a","t","e","_","s","o","u","r","c","e","d">>
F_dei == <<"d","e","i">>
F_email == <<"e","m","a","i","l">>
F_equity_debt == <<"e","q","u","i","t","y","_","d","e","b","t">>
F_evaluation == <<"e","v","a","l","u","a","t","i","o","n">>
F_files == <<"f","i","l","e","s">>
F_financing_round == <<"f","i","n","a","n","c","i","n","g","_","r","o","u","n","d">>
F_follow_up_date == <<"f","o","l","l","o","w","_","u","p","_","d","a","t","e">>
F_fund == <<"f","u","n","d">>
F_industry_focus == <<"i","n","d","u","s","t","r","y","_","f","o","c","u","s">>
F_investor_type == <<"i","n","v","e","s","t","o","r","_","t","y","p","e">>
F_last_reach_out == <<"l","a","s","t","_","r","e","a","c","h","_","o","u","t">>
F_linkedin == <<"l","i","n","k","e","d","i","n">>
F_name == <<"n","a","m","e">>
F_name_of_contact == <<"n","a","m","e","_","o","f","_","c","o","n","t","a","c","t">>
F_name_of_referral == <<"n","a","m","e","_","o","f","_","r","e","f","e","r","r","a","l">>
F_notes == <<"n","o","t","e","s">>
F_phone == <<"p","h","o","n","e">>
F_referral_source == <<"r","e","f","e","r","r","a","l","_","s","o","u","r","c","e">>
F_revenue_run_rate == <<"r","e","v","e","n","u","e","_","r","u","n","_","r","a","t","e">>
F_sent_email == <<"s","e","n","t","_","e","m","a","i","l">>
F_sourced_by == <<"s","o","u","r","c","e","d","_","b","y">>
F_stage == <<"s","t","a","g","e">>
F_state == <<"s","t","a","t","e">>
F_status == <<"s","t","a","t","u","s">>
F_title == <<"t","i","t","l","e">>
F_upcoming_meeting == <<"u","p","c","o","m","i","n","g","_","m","e","e","t","i","n","g">>

(***************************************************************************)
(* Enumerations of the schemas.                                            *)
(***************************************************************************)
USStateName ==
  {"Alabama", "Alaska", "Arizona", "Arkansas", "California", "Colorado",
   "Connecticut", "Delaware", "Florida", "Georgia", "Hawaii", "Idaho",
   "Illinois", "Indiana", "Iowa", "Kansas", "Kentucky", "Louisiana",
   "Maine", "Maryland", "Massachusetts", "Michigan", "Minnesota", "Mississippi",
   "Missouri", "Montana", "Nebraska", "Nevada", "New Hampshire", "New Jersey",
   "New Mexico", "New York", "North Carolina", "North Dakota", "Ohio", "Oklahoma",
   "Oregon", "Pennsylvania", "Rhode Island", "South Carolina", "South Dakota", "Tennessee",
   "Texas", "Utah", "Vermont", "Virginia", "Washington", "West Virginia",
   "Wisconsin", "Wyoming", "Washington D.C.", "Israel", "Canada"}

YesNo == {"Yes", "No"}

NetworkCountry == {"United States", "Canada", "United Kingdom", "Israel", "Israel/United States", "Israel/United Kingdom"}

NetworkInvestorType == {"Advisor", "Enterprise", "Family Office", "Individual", "Institutional", "Law Firm"}

DealFlowEvaluation == {"Pass", "Closed", "Company passed", "Did not close", "Due Diligence", "Evaluating", "Legal Docs", "Out of Business", "Term Sheet", "Waiting for Info", "Funded"}

DealFlowReferralSource == {"Angel Investor", "Broker", "Debt Fund", "Inbound", "Investment Banker", "LP", "Network", "Outbound", "VC Fund", "Paz Pina"}

DealFlowFinancingRound == {"Pre Seed", "Seed", "Series A", "Series B", "Series C", "Post Seed", "Bridge"}

Funds == {"Lioncrest", "Prospeq", "All"}

SentStatus == {"Sent", "In Communication", "Stuck", "Need to Send"}

(***************************************************************************)
(* The pydantic models: the ordered fields of each schema with the field   *)
(* name, the alias, the annotated type and, for enum types, the members.   *)
(***************************************************************************)
Network ==
  <<
    [name |-> F_name, alias |-> A_Name, type |-> "str", enum |-> {}],
    [name |-> F_linkedin, alias |-> A_LinkedIn, type |-> "str", enum |-> {}],
    [name |-> F_email, alias |-> A_Email, type |-> "str", enum |-> {}],
    [name |-> F_phone, alias |-> A_Phone, type |-> "str", enum |-> {}],
    [name |-> F_company, alias |-> A_Company, type |-> "str", enum |-> {}],
    [name |-> F_title, alias |-> A_Title, type |-> "str", enum |-> {}],
    [name |-> F_status, alias |-> A_Status, type |-> "str", enum |-> {}],
    [name |-> F_country, alias |-> A_Country, type |-> "enum", enum |-> NetworkCountry],
    [name |-> F_state, alias |-> A_State, type |-> "enum", enum |-> USStateName],
    [name |-> F_city, alias |-> A_City, type |-> "str", enum |-> {}],
    [name |-> F_investor_type, alias |-> A_Investor_Type, type |-> "enum", enum |-> NetworkInvestorType],
    [name |-> F_notes, alias |-> A_Notes, type |-> "str", enum |-> {}],
    [name |-> F_date, alias |-> A_Date, type |-> "str", enum |-> {}],
    [name |-> F_date_last_met, alias |-> A_Date_Last_Met, type |-> "str", enum |-> {}],
    [name |-> F_date_last_contact, alias |-> A_Date_Last_Contact, type |-> "str", enum |-> {}]
  >>

DealFlow ==
  <<
    [name |-> F_name, alias |-> A_Company_name, type |-> "str", enum |-> {}],
    [name |-> F_ceo_primary_contact, alias |-> A_CEO_Primary_Contact, type |-> "str", enum |-> {}],
    [name |-> F_email, alias |-> A_Email, type |-> "str", enum |-> {}],
    [name |-> F_date_sourced, alias |-> A_Date_Sourced, type |-> "str", enum |-> {}],
    [name |-> F_revenue_run_rate, alias |-> A_Revenue_Run_Rate, type |-> "int", enum |-> {}],
    [name |-> F_financing_round, alias |-> A_Financing_Round, type |-> "enum", enum |-> DealFlowFinancingRound],
    [name |-> F_evaluation, alias |-> A_Evaluation, type |-> "enum", enum |-> DealFlowEvaluation],
    [name |-> F_state, alias |-> A_State, type |-> "enum", enum |-> USStateName],
    [name |-> F_city, alias |-> A_City, type |-> "str", enum |-> {}],
    [name |-> F_referral_source, alias |-> A_Referral_Source, type |-> "list_enum", enum |-> DealFlowReferralSource],
    [name |-> F_name_of_referral, alias |-> A_Name_of_Referral, type |-> "str", enum |-> {}],
    [name |-> F_sourced_by, alias |-> A_Sourced_By, type |-> "list_str", enum |-> {}],
    [name |-> F_dei, alias |-> A_DEI, type |-> "enum", enum |-> YesNo],
    [name |-> F_equity_debt, alias |-> A_Equity_Debt, type |-> "str", enum |-> {}],
    [name |-> F_notes, alias |-> A_Notes, type |-> "str", enum |-> {}],
    [name |-> F_files, alias |-> A_Files, type |-> "str", enum |-> {}]
  >>

LPMainDashboard ==
  <<
    [name |-> F_name, alias |-> A_Name, type |-> "str", enum |-> {}],
    [name |-> F_amount, alias |-> A_Amount, type |-> "str", enum |-> {}],
    [name |-> F_email, alias |-> A_Email, type |-> "str", enum |-> {}],
    [name |-> F_notes, alias |-> A_Notes, type |-> "str", enum |-> {}],
    [name |-> F_status, alias |-> A_Status, type |-> "str", enum |-> {}],
    [name |-> F_fund, alias |-> A_Fund, type |-> "enum", enum |-> Funds],
    [name |-> F_sent_email, alias |-> A_Sent_Email, type |-> "enum", enum |-> SentStatus],
    [name |-> F_follow_up_date, alias |-> A_Follow_Up_date, type |-> "str", enum |-> {}],
    [name |-> F_upcoming_meeting, alias |-> A_Upcoming_Meeting, type |-> "str", enum |-> {}],
    [name |-> F_last_reach_out, alias |-> A_Last_Reach_Out, type |-> "str", enum |-> {}],
    [name |-> F_country, alias |-> A_Country, type |-> "str", enum |-> {}],
    [name |-> F_state, alias |-> A_State, type |-> "enum", enum |-> USStateName],
    [name |-> F_city, alias |-> A_City, type |-> "str", enum |-> {}]
  >>

VCFund ==
  <<
    [name |-> F_name, alias |-> A_Name, type |-> "str", enum |-> {}],
    [name |-> F_stage, alias |-> A_Stage, type |-> "str", enum |-> {}],
    [name |-> F_date, alias |-> A_Date, type |-> "str", enum |-> {}],
    [name |-> F_name_of_contact, alias |-> A_Name_of_Contact, type |-> "str", enum |-> {}],
    [name |-> F_title, alias |-> A_Title, type |-> "str", enum |-> {}],
    [name |-> F_email, alias |-> A_Email, type |-> "str", enum |-> {}],
    [name |-> F_phone, alias |-> A_Phone, type |-> "str", enum |-> {}],
    [name |-> F_country, alias |-> A_Country, type |-> "str", enum |-> {}],
    [name |-> F_state, alias |-> A_State, type |-> "enum", enum |-> USStateName],
    [name |-> F_industry_focus, alias |-> A_Industry_Focus, type |-> "str", enum |-> {}],
    [name |-> F_check_size, alias |-> A_Check_Size, type |-> "str", enum |-> {}],
    [name |-> F_linkedin, alias |-> A_LinkedIn, type |-> "str", enum |-> {}],
    [name |-> F_notes, alias |-> A_Notes, type |-> "str", enum |-> {}]
  >>

(***************************************************************************)
(* Schema registry.                                                        *)
(***************************************************************************)
SchemaType == {"network", "deal_flow", "lp_main_dashboard", "vc_fund"}

DATA_MODEL_MAP ==
  [st \in SchemaType |->
     CASE st = "network" -> Network
       [] st = "deal_flow" -> DealFlow
       [] st = "lp_main_dashboard" -> LPMainDashboard
       [] st = "vc_fund" -> VCFund]

\* [field_info.alias or fname for fname, field_info in model.model_fields.items()]
ModelAliases(model) == {model[i].alias : i \in 1..Len(model)}

\* the aliases of each schema
Aliases == [st \in SchemaType |-> ModelAliases(DATA_MODEL_MAP[st])]

(***************************************************************************)
(* _normalize_existing_data                                                *)
(***************************************************************************)
\* one iteration of the loop that fills alias_map, for the field `field`
alias_map_step(alias_map, field) ==
  LET alias == field.alias
      m1 == DictSet(alias_map, strip(lower(alias)), alias)
      base_alias == strip(split_first(alias, "("))
  IN  IF lower(base_alias) # lower(alias)
      THEN DictSet(m1, lower(base_alias), alias)
      ELSE m1

RECURSIVE build_alias_map(_, _)
\* alias_map after the loop has visited the first n fields of the model
build_alias_map(model, n) ==
  IF n = 0 THEN EmptyDict
  ELSE alias_map_step(build_alias_map(model, n - 1), model[n])

\* alias_map of each schema
AliasMap == [st \in SchemaType |-> build_alias_map(DATA_MODEL_MAP[st], Len(DATA_MODEL_MAP[st]))]

\* normalize_key without the exact-match test that comes first
normalize_key_no_exact(st, key) ==
  LET alias_map == AliasMap[st]
      normalized_key == strip(lower(key))
      base_key == lower(strip(split_first(key, "(")))
  IN  IF DictHas(alias_map, normalized_key) THEN DictAt(alias_map, normalized_key)
      ELSE IF DictHas(alias_map, base_key) THEN DictAt(alias_map, base_key)
      ELSE key

\* normalize_key keeping the normalized form of a key that matches nothing
normalize_key_custom_lowered(st, key) ==
  LET alias_map == AliasMap[st]
      normalized_key == strip(lower(key))
      base_key == lower(strip(split_first(key, "(")))
  IN  IF key \in Aliases[st] THEN key
      ELSE IF DictHas(alias_map, normalized_key) THEN DictAt(alias_map, normalized_key)
      ELSE IF DictHas(alias_map, base_key) THEN DictAt(alias_map, base_key)
      ELSE normalized_key

\* the key under which the loop body stores the value of an incoming key
normalize_key(st, key) ==
  LET alias_map == AliasMap[st]
      normalized_key == strip(lower(key))
      base_key == lower(strip(split_first(key, "(")))
  IN  IF key \in Aliases[st] THEN key
      ELSE IF DictHas(alias_map, normalized_key) THEN DictAt(alias_map, normalized_key)
      ELSE IF DictHas(alias_map, base_key) THEN DictAt(alias_map, base_key)
      ELSE key

RECURSIVE normalize_entries(_, _, _)
\* the loop keeping the value already stored under a key
normalize_entries_first_kept(st, existing, n) ==
  IF n = 0 THEN EmptyDict
  ELSE LET sofar == normalize_entries(st, existing, n - 1)
       IN  IF DictHas(sofar, normalize_key(st, existing[n].k)) THEN sofar
           ELSE DictSet(sofar, normalize_key(st, existing[n].k), existing[n].v)

\* `normalized` after the loop has visited the first n entries of existing
normalize_entries(st, existing, n) ==
  IF n = 0 THEN EmptyDict
  ELSE DictSet(normalize_entries(st, existing, n - 1),
               normalize_key(st, existing[n].k), existing[n].v)

normalize_existing_data(st, existing) == normalize_entries(st, existing, Len(existing))

(***************************************************************************)
(* _compare_records                                                        *)
(***************************************************************************)
EmptyChanges ==
  [updated_fields |-> <<>>, added_fields |-> <<>>, unchanged_fields |-> <<>>,
   changes |-> EmptyDict, total_changes |-> 0]

\* compare_key testing the new record, not the old one, for an added key
compare_key_added_by_new(acc, old, new, key) ==
  LET old_val == DictGet(old, key)
      new_val == DictGet(new, key)
  IN  IF ~DictHas(new, key)
      THEN [acc EXCEPT !.added_fields = Append(@, key),
                       !.changes = DictSet(@, key, [old |-> PyNone, new |-> new_val])]
      ELSE IF old_val # new_val
      THEN [acc EXCEPT !.updated_fields = Append(@, key),
                       !.changes = DictSet(@, key, [old |-> old_val, new |-> new_val])]
      ELSE [acc EXCEPT !.unchanged_fields = Append(@, key)]

\* compare_key leaving alone a key the new record does not hold
compare_key_missing_unchanged(acc, old, new, key) ==
  LET old_val == DictGet(old, key)
      new_val == DictGet(new, key)
  IN  IF ~DictHas(old, key)
      THEN [acc EXCEPT !.added_fields = Append(@, key),
                       !.changes = DictSet(@, key, [old |-> PyNone, new |-> new_val])]
      ELSE IF DictHas(new, key) /\ old_val # new_val
      THEN [acc EXCEPT !.updated_fields = Append(@, key),
                       !.changes = DictSet(@, key, [old |-> old_val, new |-> new_val])]
      ELSE [acc EXCEPT !.unchanged_fields = Append(@, key)]

\* compare_key recording no change entry for an added key
compare_key_added_unrecorded(acc, old, new, key) ==
  LET old_val == DictGet(old, key)
      new_val == DictGet(new, key)
  IN  IF ~DictHas(old, key)
      THEN [acc EXCEPT !.added_fields = Append(@, key)]
      ELSE IF old_val # new_val
      THEN [acc EXCEPT !.updated_fields = Append(@, key),
                       !.changes = DictSet(@, key, [old |-> old_val, new |-> new_val])]
      ELSE [acc EXCEPT !.unchanged_fields = Append(@, key)]

\* the body of the loop over all_keys, for one key
compare_key(acc, old, new, key) ==
  LET old_val == DictGet(old, key)
      new_val == DictGet(new, key)
  IN  IF ~DictHas(old, key)
      THEN [acc EXCEPT !.added_fields = Append(@, key),
                       !.changes = DictSet(@, key, [old |-> PyNone, new |-> new_val])]
      ELSE IF old_val # new_val
      THEN [acc EXCEPT !.updated_fields = Append(@, key),
                       !.changes = DictSet(@, key, [old |-> old_val, new |-> new_val])]
      ELSE [acc EXCEPT !.unchanged_fields = Append(@, key)]

\* compare_return counting the updated keys only
compare_return_updated_only(acc) ==
  [acc EXCEPT !.total_changes = Len(acc.updated_fields)]

\* the returned dict: the lists, the changes and the headline count
compare_return(acc) ==
  [acc EXCEPT !.total_changes = Len(acc.updated_fields) + Len(acc.added_fields)]

RECURSIVE compare_loop(_, _, _, _)
\* the accumulators after the loop has visited the first n keys of `order`
compare_loop(old, new, order, n) ==
  IF n = 0 THEN EmptyChanges
  ELSE compare_key(compare_loop(old, new, order, n - 1), old, new, order[n])

\* all_keys = set(old_data.keys()) | set(new_data.keys())
all_keys(old, new) == DictKeys(old) \cup DictKeys(new)

\* the orders in which Python may iterate over the set all_keys
IterationOrders(S) ==
  {o \in [1..Cardinality(S) -> S] : \A i, j \in 1..Cardinality(S) : o[i] = o[j] => i = j}

\* _compare_records, with the set iterated in the given order
compare_records(old, new, order) == compare_return(compare_loop(old, new, order, Len(order)))

(***************************************************************************)
(* pydantic: BaseModel.model_validate and model_dump(by_alias=True) for    *)
(* the four models.  No model sets `extra`, so keys that are neither an    *)
(* alias nor (with populate_by_name) a field name are ignored.             *)
(***************************************************************************)
\* model_config = {"populate_by_name": True}; DealFlow declares no model_config
PopulateByName == [st \in SchemaType |-> st # "deal_flow"]

\* strings that parse as an integer, with their value (lax mode of int fields)
IntOfString == ("4000000" :> 4000000) @@ ("500000" :> 500000)

\* the input value of a field: by alias, else by field name, else the default None
FieldInput(field, data, by_name) ==
  IF DictHas(data, field.alias) THEN DictAt(data, field.alias)
  ELSE IF by_name /\ DictHas(data, field.name) THEN DictAt(data, field.name)
  ELSE PyNone

Valid(value) == [ok |-> TRUE, value |-> value, kind |-> ""]

Invalid(kind) == [ok |-> FALSE, value |-> PyNone, kind |-> kind]

\* validation of one Optional[...] field against its annotation, accepting any
\* string for an enum annotation
validate_field_any_enum(field, value) ==
  IF value = PyNone THEN Valid(PyNone)
  ELSE CASE field.type = "str" ->
              IF value.tag = "str" THEN Valid(value) ELSE Invalid("string_type")
         [] field.type = "int" ->
              IF value.tag = "int" THEN Valid(value)
              ELSE IF value.tag = "str" /\ value.s \in DOMAIN IntOfString
                   THEN Valid(PyInt(IntOfString[value.s]))
              ELSE IF value.tag = "str" THEN Invalid("int_parsing")
              ELSE Invalid("int_type")
         [] field.type = "enum" ->
              IF value.tag = "str" THEN Valid(value) ELSE Invalid("enum")
         [] field.type = "list_str" ->
              IF value.tag # "list" THEN Invalid("list_type")
              ELSE IF \A j \in 1..Len(value.l) : value.l[j].tag = "str" THEN Valid(value)
              ELSE Invalid("string_type")
         [] field.type = "list_enum" ->
              IF value.tag # "list" THEN Invalid("list_type")
              ELSE IF \A j \in 1..Len(value.l) : value.l[j].tag = "str"
                   THEN Valid(value)
              ELSE Invalid("enum")

\* validation of one Optional[...] field against its annotation
validate_field(field, value) ==
  IF value = PyNone THEN Valid(PyNone)
  ELSE CASE field.type = "str" ->
              IF value.tag = "str" THEN Valid(value) ELSE Invalid("string_type")
         [] field.type = "int" ->
              IF value.tag = "int" THEN Valid(value)
              ELSE IF value.tag = "str" /\ value.s \in DOMAIN IntOfString
                   THEN Valid(PyInt(IntOfString[value.s]))
              ELSE IF value.tag = "str" THEN Invalid("int_parsing")
              ELSE Invalid("int_type")
         [] field.type = "enum" ->
              IF value.tag = "str" /\ value.s \in field.enum THEN Valid(value)
              ELSE Invalid("enum")
         [] field.type = "list_str" ->
              IF value.tag # "list" THEN Invalid("list_type")
              ELSE IF \A j \in 1..Len(value.l) : value.l[j].tag = "str" THEN Valid(value)
              ELSE Invalid("string_type")
         [] field.type = "list_enum" ->
              IF value.tag # "list" THEN Invalid("list_type")
              ELSE IF \A j \in 1..Len(value.l) :
                        value.l[j].tag = "str" /\ value.l[j].s \in field.enum
                   THEN Valid(value)
              ELSE Invalid("enum")

\* data_model.model_validate(data): ok with the instance (field name -> value,
\* in declaration order), or the validation errors (location and kind)
model_validate(st, data) ==
  LET model == DATA_MODEL_MAP[st]
      checked == [i \in 1..Len(model) |->
                    validate_field(model[i], FieldInput(model[i], data, PopulateByName[st]))]
  IN  [ok |-> \A i \in 1..Len(model) : checked[i].ok,
       obj |-> [i \in 1..Len(model) |-> [k |-> model[i].name, v |-> checked[i].value]],
       errors |-> {[loc |-> model[i].alias, kind |-> checked[i].kind] :
                     i \in {j \in 1..Len(model) : ~checked[j].ok}}]

\* model_dump(by_alias=True) leaving out the fields that are None
model_dump_exclude_none(st, obj) ==
  SelectSeq([i \in 1..Len(obj) |-> [k |-> DATA_MODEL_MAP[st][i].alias, v |-> obj[i].v]],
            LAMBDA e : e.v # PyNone)

\* validated_obj.model_dump(by_alias=True, exclude_none=False)
model_dump_by_alias(st, obj) ==
  [i \in 1..Len(obj) |-> [k |-> DATA_MODEL_MAP[st][i].alias, v |-> obj[i].v]]

(***************************************************************************)
(* Errors and log records.                                                 *)
(***************************************************************************)
NoError == [cls |-> "", msg |-> "", raw |-> PyNone, detail |-> {}]

\* raise ValueError(message), with the raw provider text or the validation
\* detail that the message embeds
ValueError(msg, raw, detail) == [cls |-> "ValueError", msg |-> msg, raw |-> raw, detail |-> detail]

\* an exception raised by the provider client propagates as it is
ProviderError(cls) == [cls |-> cls, msg |-> "provider", raw |-> PyNone, detail |-> {}]

\* one log record: level, message, the text_len extra (-1 when not given),
\* the object whose repr the message embeds, and the key lists of the extra
Event(level, msg, text_len, data, keys) ==
  [level |-> level, msg |-> msg, text_len |-> text_len, data |-> data, keys |-> keys]

NoReturn ==
  [kind |-> "none", obj |-> EmptyDict, alias_dict |-> EmptyDict,
   change_metadata |-> EmptyChanges, value |-> PyNone]

(***************************************************************************)
(* Field selection of the targeted extractors.                             *)
(***************************************************************************)
EndsWith(q, suffix) ==
  /\ Len(suffix) <= Len(q)
  /\ SubSeq(q, Len(q) - Len(suffix) + 1, Len(q)) = suffix

Contains(q, sub) ==
  \E i \in 1..(Len(q) - Len(sub) + 1) : SubSeq(q, i, i + Len(sub) - 1) = sub

\* "name" == alias.lower() or alias.lower().endswith("name")
IsNameAlias(alias) == EndsWith(lower(alias), <<"n","a","m","e">>)

\* "email" in alias.lower()
IsEmailAlias(alias) == Contains(lower(alias), <<"e","m","a","i","l">>)

\* index of the first field selected by the loop, 0 when the loop finds none
name_target ==
  [st \in SchemaType |->
     LET hits == {i \in 1..Len(DATA_MODEL_MAP[st]) : IsNameAlias(DATA_MODEL_MAP[st][i].alias)}
     IN  IF hits = {} THEN 0 ELSE CHOOSE i \in hits : \A j \in hits : i <= j]

\* the loop without its break: the last field that matches is kept
email_target_last_match ==
  [st \in SchemaType |->
     LET hits == {i \in 1..Len(DATA_MODEL_MAP[st]) : IsEmailAlias(DATA_MODEL_MAP[st][i].alias)}
     IN  IF hits = {} THEN 0 ELSE CHOOSE i \in hits : \A j \in hits : i >= j]

email_target ==
  [st \in SchemaType |->
     LET hits == {i \in 1..Len(DATA_MODEL_MAP[st]) : IsEmailAlias(DATA_MODEL_MAP[st][i].alias)}
     IN  IF hits = {} THEN 0 ELSE CHOOSE i \in hits : \A j \in hits : i <= j]

(***************************************************************************)
(* Prompts.  A prompt is a sequence of units: the characters of the input  *)
(* text and of the whitespace around the f-string's parts, and each fixed  *)
(* part of the f-string as one unit.  The JSON text of the existing record *)
(* is one unit, kept with the record it encodes.                           *)
(***************************************************************************)
SYSTEM_PROMPT == "_SYSTEM_PROMPT"

UPDATE_SYSTEM_PROMPT == "_UPDATE_SYSTEM_PROMPT"

NAME_SYSTEM_PROMPT == "Extract only the entity name. Return null if unknown."

EMAIL_SYSTEM_PROMPT == "Extract only the email address. Return null if unknown or not present."

\* _fields_block(schema_type): the heading and one line for each field
fields_block ==
  [st \in SchemaType |->
     CASE st = "network" -> "Extract the following fields for the network schema: ..."
       [] st = "deal_flow" -> "Extract the following fields for the deal_flow schema: ..."
       [] st = "lp" -> "Extract the following fields for the lp schema: ..."
       [] OTHER -> "Extract the following fields for the vc_fund schema: ..."]

ExistingJson == "{json.dumps(existing_data, indent=2)}"

UpdateInstructions ==
  "Instructions: Update the record by merging the existing values with any NEW, RELEVANT information from the text above. Only change fields that are clearly updated or enriched by the new text."

NoPrompt == [content |-> <<>>, existing_json |-> EmptyDict]

\* _prompt_for with the text stripped on its own before it is embedded
prompt_for_text_stripped(st, txt) ==
  [content |-> <<fields_block[st], "\n", "\n", "Text:", "\n">> \o strip(txt),
   existing_json |-> EmptyDict]

\* _prompt_for(schema_type, text)
prompt_for(st, txt) ==
  [content |-> strip(<<fields_block[st], "\n", "\n", "Text:", "\n">> \o txt \o <<"\n">>),
   existing_json |-> EmptyDict]

\* _update_prompt_for(schema_type, text, existing_data)
update_prompt_for(st, txt, existing) ==
  [content |-> strip(<<fields_block[st], "\n", "\n", "EXISTING RECORD (Current Values):", "\n",
                       ExistingJson, "\n", "\n", "NEW TEXT TO PROCESS:", "\n">>
                     \o txt \o <<"\n", "\n", UpdateInstructions, "\n">>),
   existing_json |-> existing]

\* a value of a type json.dumps has no encoding for (a datetime, a set, ...)
PyObject == [tag |-> "object", s |-> "datetime", n |-> 0, l |-> <<>>]

\* json.dumps(existing_data, indent=2) returns: every value has an encoding
JsonSerializable(d) == \A i \in 1..Len(d) : d[i].v.tag # "object"

\* the user prompt of the targeted extractors
target_prompt_for(alias, txt) ==
  [content |-> <<"Extract the field '">> \o alias
                 \o <<"' from the following text:", "\n", "\n">> \o txt,
   existing_json |-> EmptyDict]

(***************************************************************************)
(* State: the arguments, locals and outcome of one call.                   *)
(***************************************************************************)
VARIABLES
  pc,                        \* position of the call
  op,                        \* the method called
  schema_type,               \* argument schema_type
  text,                      \* argument text
  existing_data,             \* argument existing_data
  normalized_existing_data,  \* local of extract_with_update
  resp,                      \* local: what llm.parse returned
  alias_dict,                \* local: the alias-keyed flat projection
  change_metadata,           \* local: the result of _compare_records
  result,                    \* what the call returned to its caller
  error,                     \* the exception the call raised to its caller
  log,                       \* the log records emitted so far
  system_prompt,             \* local: the system message given to llm.parse
  user_prompt,               \* local: the user message given to llm.parse
  llm_calls,                 \* number of llm.parse invocations so far
  board_columns,             \* Monday: the columns of each board (external)
  title_map_cache,           \* the lru_cache of get_column_title_map
  threads,                   \* the callers of the cache and their positions
  observations,              \* what each finished access returned, in order
  calls,                     \* concurrent calls on one DataExtractor
  fn,                        \* a function called on its own
  fn_arg,                    \* its argument
  fn_ret,                    \* what it returned
  store,                     \* Monday: the items of the board
  upserts,                   \* the upsert_item calls in progress
  mutations                  \* the mutations sent to Monday, in order

extractorVars ==
  <<pc, op, schema_type, text, existing_data, normalized_existing_data, resp,
    alias_dict, change_metadata, result, error, log, system_prompt, user_prompt,
    llm_calls>>

mondayVars == <<board_columns, title_map_cache, threads, observations>>

concurrentVars == <<calls>>

\* the state a single call of the extractor does not touch
pureVars == <<fn, fn_arg, fn_ret>>

storeVars == <<store, upserts, mutations>>

outsideExtractor == <<mondayVars, concurrentVars, pureVars, storeVars>>

vars == <<extractorVars, mondayVars, concurrentVars, pureVars, storeVars>>

(***************************************************************************)
(* monday_client: the column-title map of a board and its lru_cache.       *)
(***************************************************************************)
\* board identifiers of SCHEMA_BOARD_ID_MAP
Boards == {"9206286550", "1028643789"}

Threads == {1, 2}

\* the columns a board can have: none (or no such board), or some columns
BoardMetadata ==
  {<<>>,
   <<[id |-> "name", title |-> "Name"], [id |-> "text_mkr56xn0", title |-> "Email"]>>,
   <<[id |-> "name", title |-> "Name"], [id |-> "text_mkr56xn0", title |-> "Email"],
     [id |-> "dropdown_mkr5wcap", title |-> "Financing Round"]>>}

RECURSIVE title_map_of(_, _)
\* column_title_map with the titles as keys
title_map_by_title(columns, n) ==
  IF n = 0 THEN EmptyDict
  ELSE DictSet(title_map_of(columns, n - 1), columns[n].title, columns[n].id)

\* {c["id"]: c["title"] for c in columns}, over the first n columns
title_map_of(columns, n) ==
  IF n = 0 THEN EmptyDict
  ELSE DictSet(title_map_of(columns, n - 1), columns[n].id, columns[n].title)

RECURSIVE id_map_of(_, _)
\* {title: col_id for col_id, title in title_map.items()}, over the first n items
id_map_of(title_map, n) ==
  IF n = 0 THEN EmptyDict
  ELSE DictSet(id_map_of(title_map, n - 1), title_map[n].v, title_map[n].k)

\* what an access returns from the title map: get_column_title_map returns the
\* map, get_column_id_map its reverse
access_value(kind, title_map) ==
  IF kind = "get_column_title_map" THEN title_map ELSE id_map_of(title_map, Len(title_map))

AccessKinds == {"get_column_title_map", "get_column_id_map"}

NoEntry == [present |-> FALSE, value |-> EmptyDict]

IdleThread == [pc |-> "idle", board |-> "", kind |-> "", fetched |-> EmptyDict, accesses |-> 0]

\* no caller, empty cache
InitMonday ==
  /\ board_columns = [b \in Boards |-> <<>>]
  /\ title_map_cache = [b \in Boards |-> NoEntry]
  /\ threads = [t \in Threads |-> IdleThread]
  /\ observations = <<>>

\* a thread calls get_column_title_map (directly or from get_column_id_map):
\* the lru_cache wrapper returns the cached map, or calls the function
CacheAccess(t, b, kind) ==
  /\ threads[t].pc = "idle"
  /\ threads[t].accesses < MaxAccesses
  /\ IF title_map_cache[b].present
     THEN /\ observations' = Append(observations,
               [thread |-> t, board |-> b, kind |-> kind, raised |-> FALSE, fetched |-> FALSE,
                value |-> access_value(kind, title_map_cache[b].value)])
          /\ threads' = [threads EXCEPT ![t].accesses = @ + 1]
     ELSE /\ threads' = [threads EXCEPT ![t].pc = "fetching", ![t].board = b, ![t].kind = kind]
          /\ UNCHANGED observations
  /\ UNCHANGED <<board_columns, title_map_cache, extractorVars, concurrentVars, pureVars, storeVars>>

\* execute_query returns the board's columns and the function builds the map
QueryReturns(t) ==
  /\ threads[t].pc = "fetching"
  /\ threads' = [threads EXCEPT
       ![t].pc = "fetched",
       ![t].fetched = title_map_of(board_columns[threads[t].board],
                                   Len(board_columns[threads[t].board]))]
  /\ UNCHANGED <<board_columns, title_map_cache, observations, extractorVars, concurrentVars, pureVars, storeVars>>

\* execute_query or _assert_no_errors raises: nothing is cached
QueryRaises(t) ==
  /\ threads[t].pc = "fetching"
  /\ observations' = Append(observations,
       [thread |-> t, board |-> threads[t].board, kind |-> threads[t].kind, raised |-> TRUE,
        fetched |-> TRUE, value |-> EmptyDict])
  /\ threads' = [threads EXCEPT ![t] = [IdleThread EXCEPT !.accesses = threads[t].accesses + 1]]
  /\ UNCHANGED <<board_columns, title_map_cache, extractorVars, concurrentVars, pureVars, storeVars>>

\* the wrapper stores the result unless the key was added during the call,
\* and returns the result of its own call
CacheStore(t) ==
  /\ threads[t].pc = "fetched"
  /\ title_map_cache' =
       IF title_map_cache[threads[t].board].present THEN title_map_cache
       ELSE [title_map_cache EXCEPT
               ![threads[t].board] = [present |-> TRUE, value |-> threads[t].fetched]]
  /\ observations' = Append(observations,
       [thread |-> t, board |-> threads[t].board, kind |-> threads[t].kind, raised |-> FALSE,
        fetched |-> TRUE, value |-> access_value(threads[t].kind, threads[t].fetched)])
  /\ threads' = [threads EXCEPT ![t] = [IdleThread EXCEPT !.accesses = threads[t].accesses + 1]]
  /\ UNCHANGED <<board_columns, extractorVars, concurrentVars, pureVars, storeVars>>

\* the variables of the call that the pure-function specifications leave alone
callVars == <<op, text, resp, result, error, log, system_prompt, user_prompt, llm_calls>>

\* resp before llm.parse has returned
NoResponse == [present |-> FALSE, has_parsed |-> FALSE, parsed |-> EmptyDict, output_text |-> PyNone]

(***************************************************************************)
(* Concurrent calls of extract and extract_with_update on one              *)
(* DataExtractor: each call has its own arguments and locals.              *)
(***************************************************************************)
CallIds == 1..MaxCalls

\* a call that has not started; provider is what llm.parse did for the call
IdleCall ==
  [pc |-> "idle", op |-> "none", schema_type |-> "none", text |-> <<>>,
   existing_data |-> EmptyDict, normalized_existing_data |-> EmptyDict,
   provider |-> "none", resp |-> NoResponse, result |-> NoReturn, error |-> NoError]

InitConcurrent == calls = [c \in CallIds |-> IdleCall]

\* no function called on its own
InitPure ==
  /\ fn = "none"
  /\ fn_arg = PyNone
  /\ fn_ret = PyNone

\* the callers of upsert_item
Upserters == {1, 2}

IdleUpsert ==
  [pc |-> "idle", schema_type |-> "none", item_name |-> "", column_data |-> EmptyDict,
   lookup_key |-> "", existing_item |-> "", column_values |-> EmptyDict,
   item |-> "", was_created |-> FALSE, error |-> ""]

\* an empty board and no upsert in progress
InitStore ==
  /\ store = <<>>
  /\ upserts = [u \in Upserters |-> IdleUpsert]
  /\ mutations = <<>>

InitOutsideExtractor == InitMonday /\ InitConcurrent /\ InitPure /\ InitStore

InitCallVars ==
  /\ op = "none"
  /\ text = <<>>
  /\ resp = NoResponse
  /\ result = NoReturn
  /\ error = NoError
  /\ log = <<>>
  /\ system_prompt = ""
  /\ user_prompt = NoPrompt
  /\ llm_calls = 0

Range(q) == {q[i] : i \in 1..Len(q)}

(***************************************************************************)
(* _compare_records as a pure function: any two flat records over a small  *)
(* set of keys and values.                                                 *)
(***************************************************************************)
DiffKeys == <<A_Email, A_Notes, A_City, A_Revenue_Run_Rate>>

Absent == [tag |-> "absent", s |-> "", n |-> 0, l |-> <<>>]

DiffValues(i) ==
  CASE i = 1 -> {PyStr("a@x.com"), PyNone}
    [] i = 2 -> {PyStr("foo"), PyStr("foo bar"), PyNone}
    [] i = 3 -> {PyStr("Austin"), PyNone}
    [] i = 4 -> {PyInt(4000000), PyStr("4000000")}

IsPresent(e) == e.v # Absent

DiffRecords ==
  {SelectSeq([i \in 1..Len(DiffKeys) |-> [k |-> DiffKeys[i], v |-> f[i]]], IsPresent) :
     f \in {g \in [1..Len(DiffKeys) -> UNION {DiffValues(i) : i \in 1..Len(DiffKeys)} \cup {Absent}] :
              /\ \A i \in 1..Len(DiffKeys) : g[i] \in DiffValues(i) \cup {Absent}
              /\ Cardinality({i \in 1..Len(DiffKeys) : g[i] # Absent}) <= MaxDiffKeys}}

InitCompare ==
  /\ pc = "compare_called"
  /\ schema_type = "network"
  /\ existing_data = EmptyDict
  /\ normalized_existing_data \in DiffRecords
  /\ alias_dict \in DiffRecords
  /\ change_metadata = EmptyChanges
  /\ InitCallVars
  /\ InitOutsideExtractor

Compare ==
  /\ pc = "compare_called"
  /\ \E order \in IterationOrders(all_keys(normalized_existing_data, alias_dict)) :
       change_metadata' = compare_records(normalized_existing_data, alias_dict, order)
  /\ pc' = "compare_returned"
  /\ UNCHANGED <<schema_type, existing_data, normalized_existing_data, alias_dict, callVars>>
  /\ UNCHANGED outsideExtractor

NextCompare == Compare

SpecCompare == InitCompare /\ [][NextCompare]_vars

(***************************************************************************)
(* _normalize_existing_data as a pure function: any schema and any         *)
(* record of the external store whose keys are aliases of the schema or    *)
(* cosmetic variants of them, or custom labels.                            *)
(***************************************************************************)
\* the alias in another letter case and with surrounding whitespace
CaseSpaceVariant(alias) == <<" ">> \o lower(alias) \o <<" ">>

\* the alias followed by a parenthetical qualifier
QualifiedVariant(alias) == alias \o <<" ","(","i","n"," ","$","k",")">>

CustomLabels == {<<"T","a","g","s">>, <<"T","a","g","s"," ","(","x",")">>}

ExternalLabels ==
  [st \in SchemaType |->
     Aliases[st]
       \cup {CaseSpaceVariant(a) : a \in Aliases[st]}
       \cup {QualifiedVariant(a) : a \in Aliases[st]}
       \cup CustomLabels]

\* the store returns column text or null
ExistingValues == <<PyStr("v1"), PyNone, PyStr("v3"), PyStr("v4")>>

\* the record with the given labels, in that order
ExistingRecord(labels) ==
  [i \in 1..Len(labels) |->
     [k |-> labels[i], v |-> ExistingValues[((i - 1) % Len(ExistingValues)) + 1]]]

InitNormalize ==
  /\ pc = "normalize_called"
  /\ schema_type \in SchemaType
  /\ \E n \in 0..MaxExistingKeys :
       \E labels \in [1..n -> ExternalLabels[schema_type]] :
         /\ \A i, j \in 1..n : labels[i] = labels[j] => i = j
         /\ existing_data = ExistingRecord(labels)
  /\ normalized_existing_data = EmptyDict
  /\ alias_dict = EmptyDict
  /\ change_metadata = EmptyChanges
  /\ InitCallVars
  /\ InitOutsideExtractor

Normalize ==
  /\ pc = "normalize_called"
  /\ normalized_existing_data' = normalize_existing_data(schema_type, existing_data)
  /\ pc' = "normalize_returned"
  /\ UNCHANGED <<schema_type, existing_data, alias_dict, change_metadata, callVars>>
  /\ UNCHANGED outsideExtractor

NextNormalize == Normalize

SpecNormalize == InitNormalize /\ [][NextNormalize]_vars

(***************************************************************************)
(* DataExtractor: one call of extract, extract_with_update,                *)
(* extract_entity_name_only or extract_entity_email_only, with the         *)
(* provider (llm.parse) as the environment.                                *)
(***************************************************************************)
\* schema identifiers a caller can pass: the registered ones and another one
SchemaIds == SchemaType \cup {"unregistered"}

\* input texts: two of the same length, and one with whitespace at both ends
Texts == {<<"h","i">>, <<"y","o">>, <<" ","a","\n">>}

\* exception classes of the provider client
ProviderExceptions == {"APIConnectionError", "RateLimitError"}

\* raw output text of a response without a parsed object (None when missing)
RawTexts == {PyStr("I cannot help with that"), PyNone}

\* values a provider can put into a field of its parsed object
CandidateValues(field) ==
  LET member == CHOOSE m \in field.enum : TRUE
  IN  CASE field.type = "str" -> <<PyStr("text")>>
        [] field.type = "int" -> <<PyInt(4000000), PyStr("4000000"), PyStr("$4M")>>
        [] field.type = "enum" -> <<PyStr(member), PyStr("Bogus"), PyNone>>
        [] field.type = "list_str" -> <<PyList(<<PyStr("Jane")>>), PyStr("Jane")>>
        [] field.type = "list_enum" ->
             <<PyList(<<PyStr(member)>>), PyStr(member), PyList(<<PyStr("Bogus")>>)>>

UnknownKey == <<"S","c","o","r","e">>

RECURSIVE FieldEntries(_, _)
\* the candidate entries of the first n fields, in declaration order
FieldEntries(model, n) ==
  IF n = 0 THEN <<>>
  ELSE FieldEntries(model, n - 1) \o
       [j \in 1..Len(CandidateValues(model[n])) |->
          [k |-> model[n].alias, v |-> CandidateValues(model[n])[j]]]

\* candidate entries of a parsed object dumped by alias: the fields, a key that
\* is the first field's name and a key the schema does not know
PayloadEntries ==
  [st \in SchemaType |->
     FieldEntries(DATA_MODEL_MAP[st], Len(DATA_MODEL_MAP[st])) \o
     <<[k |-> DATA_MODEL_MAP[st][1].name, v |-> PyStr("text")],
       [k |-> UnknownKey, v |-> PyStr("text")]>>]

\* parsed objects with at most MaxPayloadKeys entries
Payloads ==
  [st \in SchemaType |->
     UNION {{[i \in 1..n |-> PayloadEntries[st][idx[i]]] :
               idx \in {q \in [1..n -> 1..Len(PayloadEntries[st])] :
                          \A i, j \in 1..n : i < j =>
                            /\ q[i] < q[j]
                            /\ PayloadEntries[st][q[i]].k # PayloadEntries[st][q[j]].k}} :
            n \in 0..MaxPayloadKeys}]

\* parsed objects of the one-field model of a targeted extractor
TargetPayloads(alias) ==
  {<<[k |-> alias, v |-> PyStr("text")]>>, <<[k |-> alias, v |-> PyNone]>>}

TargetAlias(o, st) ==
  IF o = "extract_entity_name_only"
  THEN DATA_MODEL_MAP[st][name_target[st]].alias
  ELSE DATA_MODEL_MAP[st][email_target[st]].alias

\* what llm.parse can return for the call in progress
Responses(o, st) ==
  {[present |-> TRUE, has_parsed |-> FALSE, parsed |-> EmptyDict, output_text |-> raw] :
     raw \in RawTexts}
    \cup {[present |-> TRUE, has_parsed |-> TRUE, parsed |-> payload, output_text |-> PyStr("json")] :
            payload \in IF o \in {"extract", "extract_with_update"}
                        THEN Payloads[st] ELSE TargetPayloads(TargetAlias(o, st))}

\* labels of a prior record: an alias, a case/space variant, a qualified
\* variant and a custom label
PriorLabels(st) ==
  {DATA_MODEL_MAP[st][1].alias, CaseSpaceVariant(DATA_MODEL_MAP[st][3].alias),
   QualifiedVariant(DATA_MODEL_MAP[st][2].alias), <<"T","a","g","s">>}

PriorRecords(st) ==
  UNION {{ExistingRecord(labels) :
            labels \in {q \in [1..n -> PriorLabels(st)] : \A i, j \in 1..n : q[i] = q[j] => i = j}} :
         n \in 0..MaxPriorKeys}
    \cup {<<[k |-> DATA_MODEL_MAP[st][1].alias, v |-> PyObject]>>}

\* a DataExtractor on which no method has been called yet
InitExtractor ==
  /\ pc = "idle"
  /\ schema_type = "none"
  /\ existing_data = EmptyDict
  /\ normalized_existing_data = EmptyDict
  /\ alias_dict = EmptyDict
  /\ change_metadata = EmptyChanges
  /\ InitCallVars

Init == InitExtractor /\ InitOutsideExtractor

\* UnsupportedSchema with the registry looked up only after llm.parse was called
UnsupportedSchema_after_call(o, st, txt) ==
  /\ st \notin DOMAIN DATA_MODEL_MAP
  /\ log' = Append(log, Event("warning", "unsupported schema_type requested", -1, EmptyDict, <<>>))
  /\ error' = ValueError("Unsupported schema_type", PyNone, {})
  /\ pc' = "raised"
  /\ op' = o
  /\ schema_type' = st
  /\ text' = txt
  /\ llm_calls' = llm_calls + 1
  /\ UNCHANGED <<existing_data, normalized_existing_data, resp, alias_dict, change_metadata,
                 result, system_prompt, user_prompt>>

\* _data_model_for fails: it logs a warning and raises ValueError
UnsupportedSchema(o, st, txt) ==
  /\ st \notin DOMAIN DATA_MODEL_MAP
  /\ log' = Append(log, Event("warning", "unsupported schema_type requested", -1, EmptyDict, <<>>))
  /\ error' = ValueError("Unsupported schema_type", PyNone, {})
  /\ pc' = "raised"
  /\ op' = o
  /\ schema_type' = st
  /\ text' = txt
  /\ UNCHANGED <<existing_data, normalized_existing_data, resp, alias_dict, change_metadata,
                 result, system_prompt, user_prompt, llm_calls>>

\* extract, up to the call of llm.parse
ExtractCall(st, txt) ==
  /\ pc = "idle"
  /\ \/ UnsupportedSchema("extract", st, txt)
     \/ /\ st \in DOMAIN DATA_MODEL_MAP
        /\ op' = "extract"
        /\ schema_type' = st
        /\ text' = txt
        /\ log' = Append(log, Event("info", "extraction started", Len(txt), EmptyDict, <<>>))
        /\ system_prompt' = SYSTEM_PROMPT
        /\ user_prompt' = prompt_for(st, txt)
        /\ pc' = "llm_call"
        /\ UNCHANGED <<existing_data, normalized_existing_data, resp, alias_dict,
                       change_metadata, result, error, llm_calls>>
  /\ UNCHANGED outsideExtractor

\* the keys of a dict in insertion order: list(d.keys())
KeyList(d) == [i \in 1..Len(d) |-> d[i].k]

\* UpdateCall compiling the prompt from the record as it was passed in
UpdateCall_prompt_from_raw(st, txt, existing) ==
  /\ pc = "idle"
  /\ st \in DOMAIN DATA_MODEL_MAP
  /\ op' = "extract_with_update"
  /\ schema_type' = st
  /\ text' = txt
  /\ existing_data' = existing
  /\ normalized_existing_data' = normalize_existing_data(st, existing)
  /\ log' = log \o
       <<Event("info", "update extraction started", Len(txt), EmptyDict, <<>>),
         Event("debug", "normalized existing data", -1, EmptyDict,
               <<KeyList(existing), KeyList(normalize_existing_data(st, existing))>>)>>
  /\ system_prompt' = UPDATE_SYSTEM_PROMPT
  /\ user_prompt' = update_prompt_for(st, txt, existing)
  /\ pc' = "llm_call"
  /\ UNCHANGED <<resp, alias_dict, change_metadata, result, error, llm_calls>>
  /\ UNCHANGED outsideExtractor

\* extract_with_update, up to the call of llm.parse; json.dumps in
\* _update_prompt_for raises TypeError, outside any try block, for a value it
\* cannot encode
UpdateCall(st, txt, existing) ==
  /\ pc = "idle"
  /\ \/ /\ UnsupportedSchema("extract_with_update", st, txt)
     \/ /\ st \in DOMAIN DATA_MODEL_MAP
        /\ ~JsonSerializable(normalize_existing_data(st, existing))
        /\ op' = "extract_with_update"
        /\ schema_type' = st
        /\ text' = txt
        /\ existing_data' = existing
        /\ normalized_existing_data' = normalize_existing_data(st, existing)
        /\ log' = log \o
             <<Event("info", "update extraction started", Len(txt), EmptyDict, <<>>),
               Event("debug", "normalized existing data", -1, EmptyDict,
                     <<KeyList(existing), KeyList(normalize_existing_data(st, existing))>>)>>
        /\ error' = [cls |-> "TypeError", msg |-> "Object is not JSON serializable",
                     raw |-> PyNone, detail |-> {}]
        /\ pc' = "raised"
        /\ UNCHANGED <<resp, alias_dict, change_metadata, result, system_prompt, user_prompt,
                       llm_calls>>
     \/ /\ st \in DOMAIN DATA_MODEL_MAP
        /\ JsonSerializable(normalize_existing_data(st, existing))
        /\ op' = "extract_with_update"
        /\ schema_type' = st
        /\ text' = txt
        /\ existing_data' = existing
        /\ normalized_existing_data' = normalize_existing_data(st, existing)
        /\ log' = log \o
             <<Event("info", "update extraction started", Len(txt), EmptyDict, <<>>),
               Event("debug", "normalized existing data", -1, EmptyDict,
                     <<KeyList(existing), KeyList(normalize_existing_data(st, existing))>>)>>
        /\ system_prompt' = UPDATE_SYSTEM_PROMPT
        /\ user_prompt' = update_prompt_for(st, txt, normalize_existing_data(st, existing))
        /\ pc' = "llm_call"
        /\ UNCHANGED <<resp, alias_dict, change_metadata, result, error, llm_calls>>
  /\ UNCHANGED outsideExtractor

\* extract_entity_name_only, up to the call of llm.parse
NameOnlyCall(st, txt) ==
  /\ pc = "idle"
  /\ \/ UnsupportedSchema("extract_entity_name_only", st, txt)
     \/ /\ st \in DOMAIN DATA_MODEL_MAP
        /\ op' = "extract_entity_name_only"
        /\ schema_type' = st
        /\ text' = txt
        /\ IF name_target[st] = 0
           THEN /\ error' = ValueError("No name field found in schema", PyNone, {})
                /\ pc' = "raised"
                /\ UNCHANGED <<system_prompt, user_prompt>>
           ELSE /\ system_prompt' = NAME_SYSTEM_PROMPT
                /\ user_prompt' = target_prompt_for(DATA_MODEL_MAP[st][name_target[st]].alias, txt)
                /\ pc' = "llm_call"
                /\ UNCHANGED error
        /\ UNCHANGED <<existing_data, normalized_existing_data, resp, alias_dict,
                       change_metadata, result, log, llm_calls>>
  /\ UNCHANGED outsideExtractor

\* extract_entity_email_only, up to the call of llm.parse
EmailOnlyCall(st, txt) ==
  /\ pc = "idle"
  /\ \/ UnsupportedSchema("extract_entity_email_only", st, txt)
     \/ /\ st \in DOMAIN DATA_MODEL_MAP
        /\ op' = "extract_entity_email_only"
        /\ schema_type' = st
        /\ text' = txt
        /\ IF email_target[st] = 0
           THEN /\ log' = Append(log, Event("warning", "No email field found in schema", -1, EmptyDict, <<>>))
                /\ result' = [NoReturn EXCEPT !.kind = "value"]
                /\ pc' = "returned"
                /\ UNCHANGED <<system_prompt, user_prompt>>
           ELSE /\ system_prompt' = EMAIL_SYSTEM_PROMPT
                /\ user_prompt' = target_prompt_for(DATA_MODEL_MAP[st][email_target[st]].alias, txt)
                /\ pc' = "llm_call"
                /\ UNCHANGED <<log, result>>
        /\ UNCHANGED <<existing_data, normalized_existing_data, resp, alias_dict,
                       change_metadata, error, llm_calls>>
  /\ UNCHANGED outsideExtractor

FullOps == {"extract", "extract_with_update"}

\* ProviderRaises with one more attempt after the first exception
ProviderRaises_retry_once(exc) ==
  /\ pc = "llm_call"
  /\ llm_calls' = llm_calls + 1
  /\ log' = Append(log, Event("error", "llm.parse raised an exception", -1, EmptyDict, <<>>))
  /\ IF llm_calls = 0
     THEN /\ pc' = "llm_call"
          /\ UNCHANGED error
     ELSE /\ pc' = "raised"
          /\ error' = ProviderError(exc)
  /\ UNCHANGED <<op, schema_type, text, existing_data, normalized_existing_data, resp,
                 system_prompt, user_prompt, alias_dict, change_metadata, result>>
  /\ UNCHANGED outsideExtractor

\* ProviderRaises with the targeted extractors letting the exception through
ProviderRaises_targeted_reraise(exc) ==
  /\ pc = "llm_call"
  /\ llm_calls' = llm_calls + 1
  /\ log' = Append(log, Event("error", "llm.parse raised an exception", -1, EmptyDict, <<>>))
  /\ error' = ProviderError(exc)
  /\ pc' = "raised"
  /\ UNCHANGED <<op, schema_type, text, existing_data, normalized_existing_data, resp,
                 system_prompt, user_prompt, alias_dict, change_metadata, result>>
  /\ UNCHANGED outsideExtractor

\* llm.parse raises: extract and extract_with_update log the exception and
\* re-raise it; the targeted extractors log it and return None, and their
\* finally block logs the completion
ProviderRaises(exc) ==
  /\ pc = "llm_call"
  /\ llm_calls' = llm_calls + 1
  /\ \/ /\ op = "extract"
        /\ log' = Append(log, Event("error", "llm.parse raised an exception", -1, EmptyDict, <<>>))
        /\ error' = ProviderError(exc)
        /\ pc' = "raised"
        /\ UNCHANGED result
     \/ /\ op = "extract_with_update"
        /\ log' = Append(log, Event("error", "llm.parse raised an exception during update", -1, EmptyDict, <<>>))
        /\ error' = ProviderError(exc)
        /\ pc' = "raised"
        /\ UNCHANGED result
     \/ /\ op = "extract_entity_name_only"
        /\ log' = log \o
             <<Event("error", "Failed to extract entity name only", -1, EmptyDict, <<>>),
               Event("info", "name extraction completed", -1, EmptyDict, <<>>)>>
        /\ result' = [NoReturn EXCEPT !.kind = "value"]
        /\ pc' = "returned"
        /\ UNCHANGED error
     \/ /\ op = "extract_entity_email_only"
        /\ log' = log \o
             <<Event("error", "Failed to extract email only", -1, EmptyDict, <<>>),
               Event("info", "email extraction completed", -1, EmptyDict, <<>>)>>
        /\ result' = [NoReturn EXCEPT !.kind = "value"]
        /\ pc' = "returned"
        /\ UNCHANGED error
  /\ UNCHANGED <<op, schema_type, text, existing_data, normalized_existing_data, resp,
                 system_prompt, user_prompt, alias_dict, change_metadata>>
  /\ UNCHANGED outsideExtractor

\* llm.parse returns a response
ProviderReturns ==
  /\ pc = "llm_call"
  /\ llm_calls' = llm_calls + 1
  /\ \E r \in Responses(op, schema_type) : resp' = r
  /\ pc' = "llm_returned"
  /\ UNCHANGED <<op, schema_type, text, existing_data, normalized_existing_data,
                 system_prompt, user_prompt, alias_dict, change_metadata, result, error, log>>
  /\ UNCHANGED outsideExtractor

\* NoParsedObject raising the error without the raw output text
NoParsedObject_without_raw(parsed_msg, error_msg) ==
  /\ ~resp.has_parsed
  /\ log' = log \o
       <<Event("data", parsed_msg, -1, EmptyDict, <<>>),
         Event("error", error_msg, -1, EmptyDict, <<>>)>>
  /\ error' = ValueError("LLM did not return a parseable object", PyNone, {})
  /\ pc' = "raised"
  /\ UNCHANGED <<alias_dict, change_metadata, result>>

\* the common tail of extract and extract_with_update when output_parsed is
\* None: log the error and raise ValueError with the raw output text
NoParsedObject(parsed_msg, error_msg) ==
  /\ ~resp.has_parsed
  /\ log' = log \o
       <<Event("data", parsed_msg, -1, EmptyDict, <<>>),
         Event("error", error_msg, -1, EmptyDict, <<>>)>>
  /\ error' = ValueError("LLM did not return a parseable object", resp.output_text, {})
  /\ pc' = "raised"
  /\ UNCHANGED <<alias_dict, change_metadata, result>>

\* the common tail when model_validate raises ValidationError: log the
\* warning and raise ValueError with the validation detail
ValidationFails(validation, parsed_msg, warning_msg, error_msg) ==
  /\ resp.has_parsed
  /\ ~validation.ok
  /\ log' = log \o
       <<Event("data", parsed_msg, -1, resp.parsed, <<>>),
         Event("warning", warning_msg, -1, EmptyDict, <<>>)>>
  /\ error' = ValueError(error_msg, PyNone, validation.errors)
  /\ pc' = "raised"
  /\ UNCHANGED <<alias_dict, change_metadata, result>>

\* extract, after llm.parse has returned
ExtractFinish ==
  /\ pc = "llm_returned"
  /\ op = "extract"
  /\ LET validation == model_validate(schema_type, resp.parsed) IN
     \/ NoParsedObject("parsed_obj", "llm returned no parseable object")
     \/ ValidationFails(validation, "parsed_obj", "schema validation failed",
                        "Extraction did not match schema")
     \/ /\ resp.has_parsed
        /\ validation.ok
        /\ LET validated_obj == validation.obj
               dumped == model_dump_by_alias(schema_type, validated_obj)
           IN  /\ alias_dict' = dumped
               /\ log' = log \o
                    <<Event("data", "parsed_obj", -1, resp.parsed, <<>>),
                      Event("data", "validated_obj", -1, validated_obj, <<>>),
                      Event("info", "extraction succeeded", -1, EmptyDict, <<>>)>>
               /\ result' = [kind |-> "extract", obj |-> validated_obj, alias_dict |-> dumped,
                             change_metadata |-> EmptyChanges, value |-> PyNone]
        /\ pc' = "returned"
        /\ UNCHANGED <<change_metadata, error>>
  /\ UNCHANGED <<op, schema_type, text, existing_data, normalized_existing_data, resp,
                 system_prompt, user_prompt, llm_calls>>
  /\ UNCHANGED outsideExtractor

\* one iteration order of all_keys: the keys of the new record in its order,
\* then the keys found only in the old record (every order of a small set is
\* covered by SpecCompare)
KeyOrder(old, new) ==
  KeyList(new) \o KeyList(SelectSeq(old, LAMBDA e : ~DictHas(new, e.k)))

RECURSIVE dict_update(_, _, _)
\* d.update(e), over the first n items of e
dict_update(d, e, n) ==
  IF n = 0 THEN d ELSE DictSet(dict_update(d, e, n - 1), e[n].k, e[n].v)

\* UpdateFinish writing the new values into the caller's record and
\* returning that record
UpdateFinish_in_place ==
  /\ pc = "llm_returned"
  /\ op = "extract_with_update"
  /\ resp.has_parsed
  /\ model_validate(schema_type, resp.parsed).ok
  /\ LET validated_obj == model_validate(schema_type, resp.parsed).obj
         dumped == model_dump_by_alias(schema_type, validated_obj)
         patched == dict_update(existing_data, dumped, Len(dumped))
         meta == compare_records(normalized_existing_data, dumped,
                                 KeyOrder(normalized_existing_data, dumped))
     IN  /\ existing_data' = patched
         /\ alias_dict' = patched
         /\ change_metadata' = meta
         /\ log' = Append(log, Event("info", "update extraction succeeded", -1, EmptyDict,
                                     <<meta.updated_fields>>))
         /\ result' = [kind |-> "extract_with_update", obj |-> validated_obj,
                       alias_dict |-> patched, change_metadata |-> meta, value |-> PyNone]
  /\ pc' = "returned"
  /\ UNCHANGED <<op, schema_type, text, normalized_existing_data, resp, system_prompt,
                 user_prompt, error, llm_calls>>
  /\ UNCHANGED outsideExtractor

\* extract_with_update, after llm.parse has returned
UpdateFinish ==
  /\ pc = "llm_returned"
  /\ op = "extract_with_update"
  /\ LET validation == model_validate(schema_type, resp.parsed) IN
     \/ NoParsedObject("parsed_obj (update)", "llm returned no parseable object during update")
     \/ ValidationFails(validation, "parsed_obj (update)", "schema validation failed during update",
                        "Update extraction did not match schema")
     \/ /\ resp.has_parsed
        /\ validation.ok
        /\ LET validated_obj == validation.obj
               dumped == model_dump_by_alias(schema_type, validated_obj)
               meta == compare_records(normalized_existing_data, dumped,
                                       KeyOrder(normalized_existing_data, dumped))
           IN        /\ alias_dict' = dumped
                     /\ change_metadata' = meta
                     /\ log' = log \o
                          <<Event("data", "parsed_obj (update)", -1, resp.parsed, <<>>),
                            Event("data", "validated_obj (update)", -1, validated_obj, <<>>),
                            Event("info", "update extraction succeeded", -1, EmptyDict,
                                  <<meta.updated_fields>>)>>
                     /\ result' = [kind |-> "extract_with_update", obj |-> validated_obj,
                                   alias_dict |-> dumped, change_metadata |-> meta,
                                   value |-> PyNone]
        /\ pc' = "returned"
        /\ UNCHANGED error
  /\ UNCHANGED <<op, schema_type, text, existing_data, normalized_existing_data, resp,
                 system_prompt, user_prompt, llm_calls>>
  /\ UNCHANGED outsideExtractor

\* a targeted extractor, after llm.parse has returned: None when there is no
\* parsed object, else the value of the selected field; the finally block
\* logs the completion
TargetedFinish ==
  /\ pc = "llm_returned"
  /\ op \in {"extract_entity_name_only", "extract_entity_email_only"}
  /\ result' = [NoReturn EXCEPT !.kind = "value",
                                !.value = IF resp.has_parsed
                                          THEN DictGet(resp.parsed, TargetAlias(op, schema_type))
                                          ELSE PyNone]
  /\ log' = Append(log, Event("info",
                              IF op = "extract_entity_name_only"
                              THEN "name extraction completed" ELSE "email extraction completed",
                              -1, EmptyDict, <<>>))
  /\ pc' = "returned"
  /\ UNCHANGED <<op, schema_type, text, existing_data, normalized_existing_data, resp,
                 system_prompt, user_prompt, alias_dict, change_metadata, error, llm_calls>>
  /\ UNCHANGED outsideExtractor

Next ==
  \/ \E st \in SchemaIds, txt \in Texts : ExtractCall(st, txt)
  \/ \E st \in SchemaIds, txt \in Texts : \E existing \in PriorRecords(IF st \in SchemaType THEN st ELSE "network") :
       UpdateCall(st, txt, existing)
  \/ \E st \in SchemaIds, txt \in Texts : NameOnlyCall(st, txt)
  \/ \E st \in SchemaIds, txt \in Texts : EmailOnlyCall(st, txt)
  \/ \E exc \in ProviderExceptions : ProviderRaises(exc)
  \/ ProviderReturns
  \/ ExtractFinish
  \/ UpdateFinish
  \/ TargetedFinish

Spec == Init /\ [][Next]_vars

(***************************************************************************)
(* The column-title cache under concurrent callers (SpecCache).            *)
(***************************************************************************)
InitCache ==
  /\ InitExtractor
  /\ InitConcurrent
  /\ InitPure
  /\ InitStore
  /\ board_columns \in [Boards -> BoardMetadata]
  /\ title_map_cache = [b \in Boards |-> NoEntry]
  /\ threads = [t \in Threads |-> IdleThread]
  /\ observations = <<>>

NextCache ==
  \/ \E t \in Threads, b \in Boards, kind \in AccessKinds : CacheAccess(t, b, kind)
  \/ \E t \in Threads : QueryReturns(t)
  \/ \E t \in Threads : QueryRaises(t)
  \/ \E t \in Threads : CacheStore(t)

SpecCache == InitCache /\ [][NextCache]_vars

(***************************************************************************)
(* Concurrent calls on one DataExtractor (SpecConcurrent).                 *)
(***************************************************************************)
\* the call after its part before llm.parse: _data_model_for, and for
\* extract_with_update the normalization and the prompt compilation
call_started(o, st, txt, existing) ==
  LET base == [IdleCall EXCEPT !.op = o, !.schema_type = st, !.text = txt,
                               !.existing_data =
                                 IF o = "extract_with_update" THEN existing ELSE EmptyDict]
  IN  IF st \notin DOMAIN DATA_MODEL_MAP
      THEN [base EXCEPT !.pc = "raised",
                        !.error = ValueError("Unsupported schema_type", PyNone, {})]
      ELSE IF o = "extract"
      THEN [base EXCEPT !.pc = "llm_call"]
      ELSE IF JsonSerializable(normalize_existing_data(st, existing))
      THEN [base EXCEPT !.pc = "llm_call",
                        !.normalized_existing_data = normalize_existing_data(st, existing)]
      ELSE [base EXCEPT !.pc = "raised",
                        !.normalized_existing_data = normalize_existing_data(st, existing),
                        !.error = [cls |-> "TypeError", msg |-> "Object is not JSON serializable",
                                   raw |-> PyNone, detail |-> {}]]

\* the call after llm.parse raised exc
call_provider_raised(call, exc) ==
  [call EXCEPT !.pc = "raised", !.provider = exc, !.error = ProviderError(exc)]

\* call_finished comparing with the normalized record of another call, as if
\* the record were kept on the extractor
call_finished_shared(call, r) ==
  LET validation == model_validate(call.schema_type, r.parsed)
      dumped == model_dump_by_alias(call.schema_type, validation.obj)
      other == IF \E d \in CallIds : calls[d].op = "extract_with_update" /\ calls[d] # call
               THEN calls[CHOOSE d \in CallIds :
                            calls[d].op = "extract_with_update" /\ calls[d] # call]
                      .normalized_existing_data
               ELSE call.normalized_existing_data
  IN  IF ~r.has_parsed
      THEN [call EXCEPT !.pc = "raised", !.provider = "returned", !.resp = r,
              !.error = ValueError("LLM did not return a parseable object", r.output_text, {})]
      ELSE IF ~validation.ok
      THEN [call EXCEPT !.pc = "raised", !.provider = "returned", !.resp = r,
              !.error = ValueError(IF call.op = "extract"
                                   THEN "Extraction did not match schema"
                                   ELSE "Update extraction did not match schema",
                                   PyNone, validation.errors)]
      ELSE [call EXCEPT !.pc = "returned", !.provider = "returned", !.resp = r,
              !.result =
                [kind |-> call.op, obj |-> validation.obj, alias_dict |-> dumped,
                 change_metadata |->
                   IF call.op = "extract" THEN EmptyChanges
                   ELSE compare_records(other, dumped, KeyOrder(other, dumped)),
                 value |-> PyNone]]

\* the call after llm.parse returned r: no parsed object, validation failure,
\* or the validated object, its alias dict and (update) the change metadata
\* against the call's own normalized record
call_finished(call, r) ==
  LET validation == model_validate(call.schema_type, r.parsed)
      dumped == model_dump_by_alias(call.schema_type, validation.obj)
  IN  IF ~r.has_parsed
      THEN [call EXCEPT !.pc = "raised", !.provider = "returned", !.resp = r,
              !.error = ValueError("LLM did not return a parseable object", r.output_text, {})]
      ELSE IF ~validation.ok
      THEN [call EXCEPT !.pc = "raised", !.provider = "returned", !.resp = r,
              !.error = ValueError(IF call.op = "extract"
                                   THEN "Extraction did not match schema"
                                   ELSE "Update extraction did not match schema",
                                   PyNone, validation.errors)]
      ELSE [call EXCEPT !.pc = "returned", !.provider = "returned", !.resp = r,
              !.result =
                [kind |-> call.op, obj |-> validation.obj, alias_dict |-> dumped,
                 change_metadata |->
                   IF call.op = "extract" THEN EmptyChanges
                   ELSE compare_records(call.normalized_existing_data, dumped,
                                        KeyOrder(call.normalized_existing_data, dumped)),
                 value |-> PyNone]]

\* inputs of the concurrent calls
ConcurrentSchemas == {"network", "unregistered"}

ConcurrentTexts == {<<"h","i">>}

ConcurrentExisting ==
  {<<[k |-> A_Email, v |-> PyStr("v1")]>>,
   <<[k |-> CaseSpaceVariant(A_Email), v |-> PyStr("text")]>>}

ConcurrentResponses ==
  {[present |-> TRUE, has_parsed |-> FALSE, parsed |-> EmptyDict, output_text |-> PyNone],
   [present |-> TRUE, has_parsed |-> TRUE, parsed |-> <<[k |-> A_Email, v |-> PyStr("text")]>>,
    output_text |-> PyStr("json")],
   [present |-> TRUE, has_parsed |-> TRUE, parsed |-> <<[k |-> A_Email, v |-> PyInt(4000000)]>>,
    output_text |-> PyStr("json")]}

\* call c starts
ConcurrentStart(c, o, st, txt, existing) ==
  /\ calls[c].pc = "idle"
  /\ calls' = [calls EXCEPT ![c] = call_started(o, st, txt, existing)]
  /\ UNCHANGED <<extractorVars, mondayVars, pureVars, storeVars>>

\* llm.parse raises in call c
ConcurrentProviderRaises(c, exc) ==
  /\ calls[c].pc = "llm_call"
  /\ calls' = [calls EXCEPT ![c] = call_provider_raised(calls[c], exc)]
  /\ UNCHANGED <<extractorVars, mondayVars, pureVars, storeVars>>

\* llm.parse returns in call c
ConcurrentProviderReturns(c, r) ==
  /\ calls[c].pc = "llm_call"
  /\ calls' = [calls EXCEPT ![c].pc = "llm_returned", ![c].provider = "returned", ![c].resp = r]
  /\ UNCHANGED <<extractorVars, mondayVars, pureVars, storeVars>>

\* call c runs from the return of llm.parse to its end
ConcurrentFinish(c) ==
  /\ calls[c].pc = "llm_returned"
  /\ calls' = [calls EXCEPT
       ![c] = call_finished(calls[c], calls[c].resp)]
  /\ UNCHANGED <<extractorVars, mondayVars, pureVars, storeVars>>

InitConcurrentCalls ==
  /\ InitExtractor
  /\ InitMonday
  /\ InitPure
  /\ InitStore
  /\ InitConcurrent

NextConcurrent ==
  \/ \E c \in CallIds, o \in FullOps, st \in ConcurrentSchemas, txt \in ConcurrentTexts,
        existing \in ConcurrentExisting :
       ConcurrentStart(c, o, st, txt, existing)
  \/ \E c \in CallIds, exc \in ProviderExceptions : ConcurrentProviderRaises(c, exc)
  \/ \E c \in CallIds, r \in ConcurrentResponses : ConcurrentProviderReturns(c, r)
  \/ \E c \in CallIds : ConcurrentFinish(c)

SpecConcurrent == InitConcurrentCalls /\ [][NextConcurrent]_vars

(***************************************************************************)
(* MondayClient._format_column_value, called on its own (SpecFormat).      *)
(***************************************************************************)
PyBool(b) == [tag |-> "bool", s |-> "", n |-> IF b THEN 1 ELSE 0, l |-> <<>>]

Digits == <<"0", "1", "2", "3", "4", "5", "6", "7", "8", "9">>

RECURSIVE IntStr(_)
\* str(n) of an int: its decimal digits, with a sign when negative
IntStr(n) ==
  IF n < 0 THEN "-" \o IntStr(-n)
  ELSE IF n < 10 THEN Digits[n + 1]
  ELSE IntStr(n \div 10) \o Digits[(n % 10) + 1]

\* str(value) of a scalar
str(value) ==
  CASE value.tag = "str" -> value.s
    [] value.tag = "int" -> IntStr(value.n)
    [] value.tag = "bool" -> IF value.n = 1 THEN "True" ELSE "False"
    [] value.tag = "none" -> "None"

\* the values _format_column_value returns: a str, {"labels": [...]} or {"checked": ...}
FormattedStr(x) == [kind |-> "str", s |-> x, l |-> <<>>]

FormattedLabels(xs) == [kind |-> "labels", s |-> "", l |-> xs]

FormattedChecked(x) == [kind |-> "checked", s |-> x, l |-> <<>>]

\* bool is tested after int: isinstance(True, int) holds, so True becomes str(True)
format_column_value_int_first(value) ==
  IF value.tag = "none" THEN FormattedStr("")
  ELSE IF value.tag = "list" THEN
    IF value.l = <<>> THEN FormattedStr("")
    ELSE LET kept == SelectSeq(value.l, LAMBDA item : item.tag # "none")
         IN  FormattedLabels([i \in 1..Len(kept) |-> str(kept[i])])
  ELSE IF value.tag \in {"int", "bool"} THEN FormattedStr(str(value))
  ELSE FormattedStr(str(value))

format_column_value(value) ==
  IF value.tag = "none" THEN FormattedStr("")
  ELSE IF value.tag = "list" THEN
    IF value.l = <<>> THEN FormattedStr("")
    ELSE LET kept == SelectSeq(value.l, LAMBDA item : item.tag # "none")
         IN  FormattedLabels([i \in 1..Len(kept) |-> str(kept[i])])
  ELSE IF value.tag = "bool" THEN FormattedChecked(IF value.n = 1 THEN "true" ELSE "false")
  ELSE IF value.tag = "int" THEN FormattedStr(str(value))
  ELSE FormattedStr(str(value))

\* bool(formatted_value): an empty str is falsy, a one-key dict is truthy
Truthy(formatted) == formatted.kind # "str" \/ formatted.s # ""

ScalarValues ==
  {PyNone, PyBool(TRUE), PyBool(FALSE), PyInt(0), PyInt(1), PyInt(7), PyInt(10), PyInt(-3),
   PyInt(4000000), PyStr(""), PyStr("a"), PyStr("Yes"), PyStr("1"), PyStr("true")}

ListItems == {PyNone, PyBool(TRUE), PyInt(1), PyInt(25), PyStr(""), PyStr("Jane")}

RECURSIVE ListsUpTo(_)
\* the lists of at most n items
ListsUpTo(n) ==
  IF n = 0 THEN {<<>>}
  ELSE LET shorter == ListsUpTo(n - 1)
       IN  shorter \cup {Append(xs, item) : xs \in {ys \in shorter : Len(ys) = n - 1}, item \in ListItems}

FormatInputs == ScalarValues \cup {PyList(xs) : xs \in ListsUpTo(MaxListLen)}

NotCalled == [kind |-> "not called", s |-> "", l |-> <<>>]

InitFormat ==
  /\ InitExtractor
  /\ InitMonday
  /\ InitConcurrent
  /\ InitStore
  /\ fn = "_format_column_value"
  /\ fn_arg \in FormatInputs
  /\ fn_ret = NotCalled

FormatCall ==
  /\ fn = "_format_column_value"
  /\ fn_ret = NotCalled
  /\ fn_ret' = format_column_value(fn_arg)
  /\ UNCHANGED <<fn, fn_arg, extractorVars, mondayVars, concurrentVars, storeVars>>

NextFormat == FormatCall

SpecFormat == InitFormat /\ [][NextFormat]_vars

(***************************************************************************)
(* The state-code mapping of _SYSTEM_PROMPT, applied on its own            *)
(* (SpecStateCode).                                                        *)
(***************************************************************************)
\* the mapping with the name of DC spelt unlike the enum
STATE_CODE_MAPPING_dc_spelling ==
  <<
    <<"AL", "Alabama">>, <<"AK", "Alaska">>, <<"AZ", "Arizona">>,
    <<"AR", "Arkansas">>, <<"CA", "California">>, <<"CO", "Colorado">>,
    <<"CT", "Connecticut">>, <<"DE", "Delaware">>, <<"FL", "Florida">>,
    <<"GA", "Georgia">>, <<"HI", "Hawaii">>, <<"ID", "Idaho">>,
    <<"IL", "Illinois">>, <<"IN", "Indiana">>, <<"IA", "Iowa">>,
    <<"KS", "Kansas">>, <<"KY", "Kentucky">>, <<"LA", "Louisiana">>,
    <<"ME", "Maine">>, <<"MD", "Maryland">>, <<"MA", "Massachusetts">>,
    <<"MI", "Michigan">>, <<"MN", "Minnesota">>, <<"MS", "Mississippi">>,
    <<"MO", "Missouri">>, <<"MT", "Montana">>, <<"NE", "Nebraska">>,
    <<"NV", "Nevada">>, <<"NH", "New Hampshire">>, <<"NJ", "New Jersey">>,
    <<"NM", "New Mexico">>, <<"NY", "New York">>, <<"NC", "North Carolina">>,
    <<"ND", "North Dakota">>, <<"OH", "Ohio">>, <<"OK", "Oklahoma">>,
    <<"OR", "Oregon">>, <<"PA", "Pennsylvania">>, <<"RI", "Rhode Island">>,
    <<"SC", "South Carolina">>, <<"SD", "South Dakota">>, <<"TN", "Tennessee">>,
    <<"TX", "Texas">>, <<"UT", "Utah">>, <<"VT", "Vermont">>,
    <<"VA", "Virginia">>, <<"WA", "Washington">>, <<"WV", "West Virginia">>,
    <<"WI", "Wisconsin">>, <<"WY", "Wyoming">>, <<"DC", "Washington DC">>
  >>

\* "US STATE CODE -> FULL NAME (authoritative mapping)", entry by entry
STATE_CODE_MAPPING ==
  <<
    <<"AL", "Alabama">>, <<"AK", "Alaska">>, <<"AZ", "Arizona">>,
    <<"AR", "Arkansas">>, <<"CA", "California">>, <<"CO", "Colorado">>,
    <<"CT", "Connecticut">>, <<"DE", "Delaware">>, <<"FL", "Florida">>,
    <<"GA", "Georgia">>, <<"HI", "Hawaii">>, <<"ID", "Idaho">>,
    <<"IL", "Illinois">>, <<"IN", "Indiana">>, <<"IA", "Iowa">>,
    <<"KS", "Kansas">>, <<"KY", "Kentucky">>, <<"LA", "Louisiana">>,
    <<"ME", "Maine">>, <<"MD", "Maryland">>, <<"MA", "Massachusetts">>,
    <<"MI", "Michigan">>, <<"MN", "Minnesota">>, <<"MS", "Mississippi">>,
    <<"MO", "Missouri">>, <<"MT", "Montana">>, <<"NE", "Nebraska">>,
    <<"NV", "Nevada">>, <<"NH", "New Hampshire">>, <<"NJ", "New Jersey">>,
    <<"NM", "New Mexico">>, <<"NY", "New York">>, <<"NC", "North Carolina">>,
    <<"ND", "North Dakota">>, <<"OH", "Ohio">>, <<"OK", "Oklahoma">>,
    <<"OR", "Oregon">>, <<"PA", "Pennsylvania">>, <<"RI", "Rhode Island">>,
    <<"SC", "South Carolina">>, <<"SD", "South Dakota">>, <<"TN", "Tennessee">>,
    <<"TX", "Texas">>, <<"UT", "Utah">>, <<"VT", "Vermont">>,
    <<"VA", "Virginia">>, <<"WA", "Washington">>, <<"WV", "West Virginia">>,
    <<"WI", "Wisconsin">>, <<"WY", "Wyoming">>, <<"DC", "Washington D.C.">>
  >>

\* the full names the mapping gives for a code
mapped_names(code) ==
  {STATE_CODE_MAPPING[i][2] : i \in {j \in 1..Len(STATE_CODE_MAPPING) : STATE_CODE_MAPPING[j][1] = code}}

\* rules 7 and 9: a code of the mapping is converted to its full name, a
\* location that cannot be mapped sets "State" = null
state_for_code(code) ==
  IF Cardinality(mapped_names(code)) = 1
  THEN PyStr(CHOOSE name \in mapped_names(code) : TRUE)
  ELSE PyNone

\* 2-letter codes that are not U.S. postal codes of the mapping
OtherCodes == {"PR", "ON", "QC", "GU", "XX", "ZZ"}

StateCodes == {STATE_CODE_MAPPING[i][1] : i \in 1..Len(STATE_CODE_MAPPING)} \cup OtherCodes

\* the "State" field of a schema
state_field(st) ==
  DATA_MODEL_MAP[st][CHOOSE i \in 1..Len(DATA_MODEL_MAP[st]) : DATA_MODEL_MAP[st][i].alias = A_State]

InitStateCode ==
  /\ InitExtractor
  /\ InitMonday
  /\ InitConcurrent
  /\ InitStore
  /\ fn = "state_for_code"
  /\ fn_arg \in StateCodes
  /\ fn_ret = NotCalled

StateCodeCall ==
  /\ fn = "state_for_code"
  /\ fn_ret = NotCalled
  /\ fn_ret' = state_for_code(fn_arg)
  /\ UNCHANGED <<fn, fn_arg, extractorVars, mondayVars, concurrentVars, storeVars>>

NextStateCode == StateCodeCall

SpecStateCode == InitStateCode /\ [][NextStateCode]_vars

(***************************************************************************)
(* monday_client: upsert_item, create_item and update_item, called by two  *)
(* callers on the boards of Monday (SpecUpsert).                           *)
(***************************************************************************)
SCHEMA_BOARD_ID_MAP ==
  [st \in SchemaType |->
     CASE st = "deal_flow" -> "9206286550"
       [] st = "lp_main_dashboard" -> "9511257597"
       [] st = "vc_fund" -> "551869329"
       [] st = "network" -> "1028643789"]

\* the columns of a board, as Q_COLUMNS returns them
ItemBoardColumns ==
  <<[id |-> "name", title |-> A_Name], [id |-> "text_mkr56xn0", title |-> A_Email],
    [id |-> "dropdown_mkr5wcap", title |-> A_Financing_Round],
    [id |-> "long_text_mkr5", title |-> A_Notes]>>

\* get_column_title_map(board_id) and get_column_id_map(board_id)
column_title_map == title_map_of(ItemBoardColumns, Len(ItemBoardColumns))

column_id_map == id_map_of(column_title_map, Len(column_title_map))

\* _find_email_column_id: the id of the first column whose title holds "email"
find_email_column_id ==
  LET hits == {i \in 1..Len(column_title_map) :
                 Contains(lower(column_title_map[i].v), <<"e","m","a","i","l">>)}
  IN  IF hits = {} THEN ""
      ELSE column_title_map[CHOOSE i \in hits : \A j \in hits : i <= j].k

RECURSIVE create_column_values(_, _)
\* the loop of create_item without the test of formatted_value
create_column_values_keep_empty(column_data, n) ==
  IF n = 0 THEN EmptyDict
  ELSE LET title == column_data[n].k
           value == column_data[n].v
           sofar == create_column_values(column_data, n - 1)
       IN  IF value = PyNone THEN sofar
           ELSE IF ~DictHas(column_id_map, title) THEN sofar
           ELSE DictSet(sofar, DictAt(column_id_map, title), format_column_value(value))

\* the loop of create_item over the first n entries of column_data
create_column_values(column_data, n) ==
  IF n = 0 THEN EmptyDict
  ELSE LET title == column_data[n].k
           value == column_data[n].v
           sofar == create_column_values(column_data, n - 1)
       IN  IF value = PyNone THEN sofar
           ELSE IF ~DictHas(column_id_map, title) THEN sofar
           ELSE IF Truthy(format_column_value(value))
           THEN DictSet(sofar, DictAt(column_id_map, title), format_column_value(value))
           ELSE sofar

RECURSIVE update_column_values(_, _)
\* the loop of update_item over the first n entries of column_data
update_column_values(column_data, n) ==
  IF n = 0 THEN EmptyDict
  ELSE LET title == column_data[n].k
           value == column_data[n].v
           sofar == update_column_values(column_data, n - 1)
       IN  IF ~DictHas(column_id_map, title) THEN sofar
           ELSE DictSet(sofar, DictAt(column_id_map, title), format_column_value(value))

\* the items the store returns for Q_BY_NAME
items_by_name(items, board, name) ==
  SelectSeq(items, LAMBDA it : it.board = board /\ it.name = name)

\* the items the store returns for Q_BY_COLUMN on the e-mail column
items_by_email(items, board, email) ==
  SelectSeq(items, LAMBDA it :
    /\ it.board = board
    /\ DictHas(it.column_values, find_email_column_id)
    /\ DictAt(it.column_values, find_email_column_id) = FormattedStr(email))

\* the lookup of upsert_item: by name for deal flow and VC fund, by e-mail
\* for network and LP
items_for(items, st, lookup_key) ==
  IF st \in {"deal_flow", "vc_fund"}
  THEN items_by_name(items, SCHEMA_BOARD_ID_MAP[st], lookup_key)
  ELSE items_by_email(items, SCHEMA_BOARD_ID_MAP[st], lookup_key)

RECURSIVE change_column_values(_, _, _)
\* the store applies the first n column values of a mutation to an item
change_column_values(item_values, column_values, n) ==
  IF n = 0 THEN item_values
  ELSE DictSet(change_column_values(item_values, column_values, n - 1),
               column_values[n].k, column_values[n].v)

A_Score == <<"S","c","o","r","e">>

UpsertSchemas == SchemaType \cup {"unregistered"}

ItemNames == {"Acme"}

\* no key, the name of the item, the e-mail of the item
LookupKeys == {"", "Acme", "a@x.com"}

ColumnData ==
  {<<[k |-> A_Email, v |-> PyStr("a@x.com")],
     [k |-> A_Financing_Round, v |-> PyList(<<PyStr("Seed")>>)],
     [k |-> A_Notes, v |-> PyNone]>>,
   <<[k |-> A_Email, v |-> PyStr("a@x.com")],
     [k |-> A_Financing_Round, v |-> PyList(<<>>)],
     [k |-> A_Score, v |-> PyInt(7)]>>,
   <<[k |-> A_Email, v |-> PyNone],
     [k |-> A_Financing_Round, v |-> PyList(<<PyNone>>)],
     [k |-> A_Notes, v |-> PyStr("")],
     [k |-> A_Score, v |-> PyNone]>>}

\* upsert_item up to its first request
UpsertCall(u, st, item_name, column_data, lookup_key) ==
  /\ upserts[u].pc = "idle"
  /\ upserts' = [upserts EXCEPT ![u] =
       [IdleUpsert EXCEPT
          !.schema_type = st, !.item_name = item_name, !.column_data = column_data,
          !.lookup_key = lookup_key,
          !.error = IF st \in DOMAIN SCHEMA_BOARD_ID_MAP THEN "" ELSE "ValueError",
          !.pc = IF st \notin DOMAIN SCHEMA_BOARD_ID_MAP THEN "raised"
                 ELSE IF lookup_key # "" THEN "lookup" ELSE "create"]]
  /\ UNCHANGED <<store, mutations, extractorVars, mondayVars, concurrentVars, pureVars>>

\* get_items_by_name or get_items_by_email returns: existing_item is the first
\* item found
Lookup(u) ==
  /\ upserts[u].pc = "lookup"
  /\ LET items == items_for(store, upserts[u].schema_type, upserts[u].lookup_key)
     IN  upserts' = [upserts EXCEPT
           ![u].existing_item = IF items # <<>> THEN items[1].id ELSE "",
           ![u].pc = IF items # <<>> THEN "update" ELSE "create"]
  /\ UNCHANGED <<store, mutations, extractorVars, mondayVars, concurrentVars, pureVars>>

\* execute_query or _assert_no_errors raises: the request changed nothing
RequestFails(u) ==
  /\ upserts[u].pc \in {"lookup", "create", "update"}
  /\ upserts' = [upserts EXCEPT ![u].pc = "raised", ![u].error = "RuntimeError"]
  /\ UNCHANGED <<store, mutations, extractorVars, mondayVars, concurrentVars, pureVars>>

\* create_item: the column values, the mutation, and the return of upsert_item
CreateItem(u) ==
  /\ upserts[u].pc = "create"
  /\ LET column_values == create_column_values(upserts[u].column_data, Len(upserts[u].column_data))
         created == [id |-> IntStr(Len(store) + 1),
                     board |-> SCHEMA_BOARD_ID_MAP[upserts[u].schema_type],
                     name |-> upserts[u].item_name,
                     column_values |-> column_values]
     IN  /\ store' = Append(store, created)
         /\ mutations' = Append(mutations,
              [kind |-> "create_item", by |-> u, item_id |-> created.id,
               column_values |-> column_values])
         /\ upserts' = [upserts EXCEPT ![u].pc = "returned", ![u].column_values = column_values,
                                       ![u].item = created.id, ![u].was_created = TRUE]
  /\ UNCHANGED <<extractorVars, mondayVars, concurrentVars, pureVars>>

\* update_item: the column values, the mutation, and the return of upsert_item
UpdateItem(u) ==
  /\ upserts[u].pc = "update"
  /\ LET column_values == update_column_values(upserts[u].column_data, Len(upserts[u].column_data))
     IN  /\ store' = [i \in 1..Len(store) |->
              IF store[i].id = upserts[u].existing_item
              THEN [store[i] EXCEPT !.column_values =
                      change_column_values(@, column_values, Len(column_values))]
              ELSE store[i]]
         /\ mutations' = Append(mutations,
              [kind |-> "change_multiple_column_values", by |-> u,
               item_id |-> upserts[u].existing_item, column_values |-> column_values])
         /\ upserts' = [upserts EXCEPT ![u].pc = "returned", ![u].column_values = column_values,
                                       ![u].item = upserts[u].existing_item,
                                       ![u].was_created = FALSE]
  /\ UNCHANGED <<extractorVars, mondayVars, concurrentVars, pureVars>>

InitUpsert ==
  /\ InitExtractor
  /\ InitMonday
  /\ InitConcurrent
  /\ InitPure
  /\ InitStore

NextUpsert ==
  \/ \E u \in Upserters, st \in UpsertSchemas, item_name \in ItemNames,
        column_data \in ColumnData, lookup_key \in LookupKeys :
       UpsertCall(u, st, item_name, column_data, lookup_key)
  \/ \E u \in Upserters : Lookup(u)
  \/ \E u \in Upserters : RequestFails(u)
  \/ \E u \in Upserters : CreateItem(u)
  \/ \E u \in Upserters : UpdateItem(u)

SpecUpsert == InitUpsert /\ [][NextUpsert]_vars

(***************************************************************************)
(* Properties of _compare_records (SpecCompare).                           *)
(***************************************************************************)
ExampleP == <<[k |-> A_Email, v |-> PyStr("a@x.com")], [k |-> A_Notes, v |-> PyStr("foo")]>>

ExampleN ==
  <<[k |-> A_Email, v |-> PyStr("a@x.com")], [k |-> A_Notes, v |-> PyStr("foo bar")],
    [k |-> A_City, v |-> PyStr("Austin")]>>

\* C1: a key is reported added iff it is in the new record and not in the
\* prior record; a key of the prior record is reported updated iff its prior
\* value differs from new.get(key), and unchanged iff the two are equal; for
\* prior {Email: a@x.com, Notes: foo} and new {Email: a@x.com, Notes: foo bar,
\* City: Austin} the result is added = {City}, updated = {Notes},
\* unchanged = {Email}.
C1_DiffClassification ==
  pc = "compare_returned" =>
    LET P == normalized_existing_data
        N == alias_dict
        m == change_metadata
    IN  /\ Range(m.added_fields) = {key \in DictKeys(N) : key \notin DictKeys(P)}
        /\ Range(m.updated_fields) = {key \in DictKeys(P) : DictAt(P, key) # DictGet(N, key)}
        /\ Range(m.unchanged_fields) = {key \in DictKeys(P) : DictAt(P, key) = DictGet(N, key)}
        /\ (P = ExampleP /\ N = ExampleN) =>
             /\ Range(m.added_fields) = {A_City}
             /\ Range(m.updated_fields) = {A_Notes}
             /\ Range(m.unchanged_fields) = {A_Email}

C1_Witness ==
  /\ pc = "compare_returned"
  /\ normalized_existing_data = ExampleP
  /\ alias_dict = ExampleN
  /\ change_metadata.added_fields = <<A_City>>

NoDuplicates(q) == \A i, j \in 1..Len(q) : q[i] = q[j] => i = j

\* C2: total_changes is the number of added keys plus the number of updated
\* keys; no key is listed twice or in two of the lists added, updated,
\* unchanged; together the lists hold exactly the keys of the prior and the
\* new record.
C2_DiffPartition ==
  pc = "compare_returned" =>
    LET m == change_metadata
        added == Range(m.added_fields)
        updated == Range(m.updated_fields)
        unchanged == Range(m.unchanged_fields)
    IN  /\ NoDuplicates(m.added_fields \o m.updated_fields \o m.unchanged_fields)
        /\ m.total_changes = Cardinality(added) + Cardinality(updated)
        /\ added \cap updated = {}
        /\ added \cap unchanged = {}
        /\ updated \cap unchanged = {}
        /\ added \cup updated \cup unchanged =
             DictKeys(normalized_existing_data) \cup DictKeys(alias_dict)

C2_Witness ==
  /\ pc = "compare_returned"
  /\ change_metadata.added_fields # <<>>
  /\ change_metadata.updated_fields # <<>>
  /\ change_metadata.unchanged_fields # <<>>
  /\ change_metadata.total_changes = 3

C4_NormalizeIdempotent ==
  pc = "normalize_returned" =>
    /\ DictEq(normalize_existing_data(schema_type, normalized_existing_data),
              normalized_existing_data)
    /\ DictKeys(existing_data) \subseteq Aliases[schema_type] =>
         DictEq(normalized_existing_data, existing_data)

C4_Witness ==
  /\ pc = "normalize_returned"
  /\ Len(existing_data) = 2
  /\ existing_data[1].k \in Aliases[schema_type]
  /\ existing_data[2].k \notin Aliases[schema_type]
  /\ DictKeys(normalized_existing_data) # DictKeys(existing_data)

\* key.strip().lower(): the key without its letter case and outer whitespace
CaseSpaceForm(key) == lower(strip(key))

\* C5 (first part): an incoming key that equals an alias A of the schema up to
\* letter case and surrounding whitespace is stored under A itself.
C5_CaseSpaceMatchToAlias ==
  pc = "normalize_returned" =>
    \A i \in 1..Len(existing_data) :
      \A A \in Aliases[schema_type] :
        CaseSpaceForm(existing_data[i].k) = CaseSpaceForm(A) =>
          /\ DictHas(normalized_existing_data, A)
          /\ Len(existing_data) = 1 => DictKeys(normalized_existing_data) = {A}

\* the forms under which a key matches an alias: the lowercased aliases and
\* the lowercased aliases without their parenthetical
MatchForms ==
  [st \in SchemaType |->
     {lower(a) : a \in Aliases[st]}
       \cup {lower(strip(split_first(a, "("))) : a \in Aliases[st]}]

Unmatched(st, key) ==
  /\ key \notin Aliases[st]
  /\ CaseSpaceForm(key) \notin MatchForms[st]
  /\ lower(strip(split_first(key, "("))) \notin MatchForms[st]

\* C6: a key that matches no alias is in the output under the same key with
\* the same value, and every value of the output is the value of an incoming
\* entry whose key is the output key or was renamed to it.
C6_UnmatchedPreserved ==
  pc = "normalize_returned" =>
    /\ \A i \in 1..Len(existing_data) :
         Unmatched(schema_type, existing_data[i].k) =>
           /\ DictHas(normalized_existing_data, existing_data[i].k)
           /\ DictAt(normalized_existing_data, existing_data[i].k) = existing_data[i].v
    /\ \A j \in 1..Len(normalized_existing_data) :
         \E i \in 1..Len(existing_data) :
           /\ existing_data[i].v = normalized_existing_data[j].v
           /\ \/ existing_data[i].k = normalized_existing_data[j].k
              \/ ~Unmatched(schema_type, existing_data[i].k)

C6_Witness ==
  /\ pc = "normalize_returned"
  /\ Len(existing_data) = 2
  /\ Unmatched(schema_type, existing_data[1].k)
  /\ ~Unmatched(schema_type, existing_data[2].k)
  /\ existing_data[2].k \notin Aliases[schema_type]
  /\ DictHas(normalized_existing_data, existing_data[1].k)

(***************************************************************************)
(* Properties of the calls (Spec).                                         *)
(***************************************************************************)
\* the call has ended, by returning or by raising
Ended == pc \in {"returned", "raised"}

\* nothing was returned to the caller and no projection or diff was computed
NothingReturned ==
  /\ result = NoReturn
  /\ alias_dict = EmptyDict
  /\ change_metadata = EmptyChanges

\* C7: when llm.parse returns a response without a parsed object, extract and
\* extract_with_update end by raising the no-parseable-object error that
\* carries the response's raw output text, and return nothing.
C7_NoParsedObjectRaises ==
  (Ended /\ op \in FullOps /\ resp.present /\ ~resp.has_parsed) =>
    /\ pc = "raised"
    /\ error = ValueError("LLM did not return a parseable object", resp.output_text, {})
    /\ NothingReturned

C7_Witness ==
  /\ pc = "raised"
  /\ op = "extract_with_update"
  /\ resp.present
  /\ ~resp.has_parsed
  /\ error.raw = PyStr("I cannot help with that")

\* the fields of enum type whose entry in the payload is neither a member of
\* the enum nor null
OutOfEnumFields(st, payload) ==
  {i \in 1..Len(DATA_MODEL_MAP[st]) :
     /\ DATA_MODEL_MAP[st][i].type = "enum"
     /\ DictHas(payload, DATA_MODEL_MAP[st][i].alias)
     /\ DictAt(payload, DATA_MODEL_MAP[st][i].alias) # PyNone
     /\ ~(/\ DictAt(payload, DATA_MODEL_MAP[st][i].alias).tag = "str"
          /\ DictAt(payload, DATA_MODEL_MAP[st][i].alias).s \in DATA_MODEL_MAP[st][i].enum)}

\* C8: when the parsed object holds, in a field of enum type, a value that is
\* neither a member of the enum nor null, extract and extract_with_update end
\* by raising the did-not-match-schema error whose detail names that field,
\* and return nothing.
C8_OutOfEnumRaises ==
  (Ended /\ op \in FullOps /\ resp.present /\ resp.has_parsed) =>
    \A i \in OutOfEnumFields(schema_type, resp.parsed) :
      /\ pc = "raised"
      /\ error.cls = "ValueError"
      /\ error.msg = IF op = "extract" THEN "Extraction did not match schema"
                     ELSE "Update extraction did not match schema"
      /\ [loc |-> DATA_MODEL_MAP[schema_type][i].alias, kind |-> "enum"] \in error.detail
      /\ NothingReturned

C8_Witness ==
  /\ pc = "raised"
  /\ op = "extract"
  /\ resp.has_parsed
  /\ OutOfEnumFields(schema_type, resp.parsed) # {}
  /\ Cardinality(error.detail) = 1

\* C9: a validated payload with a key that is not an alias of the schema is
\* rejected: the call ends by raising.
C9_UnknownKeyRejected ==
  (Ended /\ op \in FullOps /\ resp.present /\ resp.has_parsed
     /\ ~(DictKeys(resp.parsed) \subseteq Aliases[schema_type])) =>
    pc = "raised"

\* C10 (as amended): for a schema identifier that is not registered, all four
\* methods end by raising ValueError with the message "Unsupported
\* schema_type", after logging a warning, without any call of llm.parse and
\* without returning anything; the message differs from those of the
\* no-parseable-object and did-not-match-schema errors.
C10_UnsupportedSchemaRaises ==
  (op # "none" /\ schema_type \notin SchemaType) =>
    /\ pc = "raised"
    /\ error = ValueError("Unsupported schema_type", PyNone, {})
    /\ error.msg \notin {"LLM did not return a parseable object",
                         "Extraction did not match schema",
                         "Update extraction did not match schema"}
    /\ llm_calls = 0
    /\ resp = NoResponse
    /\ NothingReturned
    /\ log = <<Event("warning", "unsupported schema_type requested", -1, EmptyDict, <<>>)>>

C10_Witness ==
  /\ pc = "raised"
  /\ op = "extract_entity_email_only"
  /\ schema_type = "unregistered"
  /\ llm_calls = 0

\* the exception class of the error of an unregistered schema
UnsupportedSchemaClass == "ValueError"

\* C10 (as stated): for a schema identifier that is not registered the methods
\* raise before any call of llm.parse, and the error kind they raise is not the
\* kind raised for a response without a parsed object or for a payload that
\* does not match the schema.
C10_DistinctErrorKind ==
  pc = "raised" =>
    /\ schema_type \notin SchemaType =>
         (error.cls = UnsupportedSchemaClass /\ llm_calls = 0)
    /\ (schema_type \in SchemaType /\ resp.present) =>
         error.cls # UnsupportedSchemaClass

TargetedOps == {"extract_entity_name_only", "extract_entity_email_only"}

\* the log holds a record with this message
Logged(msg) == \E i \in 1..Len(log) : log[i].msg = msg

BareStringListFields(st, payload) ==
  {i \in 1..Len(DATA_MODEL_MAP[st]) :
     /\ DATA_MODEL_MAP[st][i].type \in {"list_str", "list_enum"}
     /\ DictHas(payload, DATA_MODEL_MAP[st][i].alias)
     /\ DictAt(payload, DATA_MODEL_MAP[st][i].alias).tag = "str"}

\* the payload with every such string put into a one-element list
WithListsWrapped(st, payload) ==
  [j \in 1..Len(payload) |->
     IF \E i \in BareStringListFields(st, payload) : DATA_MODEL_MAP[st][i].alias = payload[j].k
     THEN [k |-> payload[j].k, v |-> PyList(<<payload[j].v>>)]
     ELSE payload[j]]

\* C12: when the parsed object holds a single string for a list-typed field
\* and is valid otherwise, extract returns, and the flat projection holds for
\* that field the one-element list of the string.
C12_BareStringBecomesList ==
  (/\ Ended
   /\ op = "extract"
   /\ resp.present
   /\ resp.has_parsed
   /\ BareStringListFields(schema_type, resp.parsed) # {}
   /\ model_validate(schema_type, WithListsWrapped(schema_type, resp.parsed)).ok) =>
    /\ pc = "returned"
    /\ \A i \in BareStringListFields(schema_type, resp.parsed) :
         DictGet(alias_dict, DATA_MODEL_MAP[schema_type][i].alias)
           = PyList(<<DictAt(resp.parsed, DATA_MODEL_MAP[schema_type][i].alias)>>)

\* C13: when extract or extract_with_update returns, the keys of the returned
\* alias dict are exactly the aliases of the schema, each once: a field the
\* parsed object does not give is present with the value None, and a key of
\* the parsed object that is no alias is not present.
C13_AliasDictKeys ==
  (pc = "returned" /\ op \in FullOps) =>
    /\ DictKeys(result.alias_dict) = Aliases[schema_type]
    /\ Len(result.alias_dict) = Cardinality(Aliases[schema_type])
    /\ result.alias_dict = alias_dict
    /\ \A i \in 1..Len(DATA_MODEL_MAP[schema_type]) :
         (/\ ~DictHas(resp.parsed, DATA_MODEL_MAP[schema_type][i].alias)
          /\ ~DictHas(resp.parsed, DATA_MODEL_MAP[schema_type][i].name)) =>
           DictGet(result.alias_dict, DATA_MODEL_MAP[schema_type][i].alias) = PyNone

C13_Witness ==
  /\ pc = "returned"
  /\ op = "extract_with_update"
  /\ DictKeys(resp.parsed) = {UnknownKey, A_Email}
  /\ DictKeys(result.alias_dict) = Aliases[schema_type]
  /\ DictGet(result.alias_dict, A_Email) = PyStr("text")

\* C14: llm.parse is invoked at most once in a call, and only from the
\* position where it has not been invoked yet; when that invocation raises in
\* extract or extract_with_update, the call ends at once by raising the
\* provider's exception, after logging it, and returns nothing.
C14_NoRetry ==
  /\ llm_calls \in {0, 1}
  /\ pc = "llm_call" => llm_calls = 0
  /\ (op \in FullOps /\ llm_calls = 1 /\ ~resp.present) =>
       /\ pc = "raised"
       /\ error.cls \in ProviderExceptions
       /\ error = ProviderError(error.cls)
       /\ NothingReturned
       /\ log[Len(log)].level = "error"

C14_Witness ==
  /\ op = "extract"
  /\ pc = "raised"
  /\ error = ProviderError("RateLimitError")
  /\ llm_calls = 1

\* C15: the steps of a call are ordered.  Before llm.parse is invoked the
\* prompt is compiled and nothing is validated, projected or compared; in
\* extract_with_update the prompt embeds the normalized existing record; a
\* returned alias dict is the dump of the validated parsed object and the
\* returned change metadata is the comparison of the normalized existing
\* record with that alias dict; a call that raised has run no later step (a
\* call whose prompt compilation raised has no prompt and invoked nothing).
C15_StepOrder ==
  /\ pc \in {"llm_call", "llm_returned"} =>
       /\ user_prompt # NoPrompt
       /\ system_prompt # ""
       /\ resp.present <=> pc = "llm_returned"
       /\ NothingReturned
  /\ (op = "extract" /\ schema_type \in SchemaType) =>
       /\ user_prompt = prompt_for(schema_type, text)
       /\ system_prompt = SYSTEM_PROMPT
  /\ (op = "extract_with_update" /\ schema_type \in SchemaType) =>
       /\ normalized_existing_data = normalize_existing_data(schema_type, existing_data)
       /\ IF JsonSerializable(normalized_existing_data)
          THEN /\ user_prompt = update_prompt_for(schema_type, text, normalized_existing_data)
               /\ user_prompt.existing_json = normalized_existing_data
               /\ system_prompt = UPDATE_SYSTEM_PROMPT
          ELSE /\ pc = "raised"
               /\ error.cls = "TypeError"
               /\ user_prompt = NoPrompt
               /\ llm_calls = 0
  /\ (pc = "returned" /\ op \in FullOps) =>
       /\ resp.present
       /\ resp.has_parsed
       /\ model_validate(schema_type, resp.parsed).ok
       /\ result.obj = model_validate(schema_type, resp.parsed).obj
       /\ alias_dict = model_dump_by_alias(schema_type, result.obj)
       /\ change_metadata =
            IF op = "extract" THEN EmptyChanges
            ELSE compare_records(normalized_existing_data, alias_dict,
                                 KeyOrder(normalized_existing_data, alias_dict))
       /\ result.alias_dict = alias_dict
       /\ result.change_metadata = change_metadata
  /\ (pc = "raised" /\ op \in FullOps) =>
       /\ NothingReturned
       /\ schema_type \notin SchemaType =>
            (user_prompt = NoPrompt /\ normalized_existing_data = EmptyDict /\ llm_calls = 0)
       /\ (schema_type \in SchemaType /\ error.cls # "TypeError") => llm_calls = 1
       /\ error.cls \in ProviderExceptions => ~resp.present

C15_Witness ==
  /\ pc = "returned"
  /\ op = "extract_with_update"
  /\ KeyList(normalized_existing_data) # KeyList(existing_data)
  /\ user_prompt.existing_json = normalized_existing_data
  /\ change_metadata.updated_fields # <<>>

\* C16: the log records of extract and extract_with_update depend on the
\* text only through its length: a record carries the length of the text or
\* no length at all, and no record carries a value of the parsed or the
\* validated object, which are the values extracted from the text.
C16_LogOnlyTextLength ==
  op \in FullOps =>
    \A i \in 1..Len(log) :
      /\ log[i].text_len \in {-1, Len(text)}
      /\ \A j \in 1..Len(log[i].data) : log[i].data[j].v = PyNone

\* C17: whenever extract or extract_with_update ends by raising, the last
\* log record emitted before the error propagates is a warning or an error
\* record describing the failure.
C17_FailureLogged ==
  (pc = "raised" /\ op \in FullOps) =>
    /\ log # <<>>
    /\ log[Len(log)].level \in {"warning", "error"}

\* s without its trailing whitespace
WithoutTrailingWhitespace(s) ==
  LET keep == {i \in 1..Len(s) : s[i] \notin Whitespace}
  IN  IF keep = {} THEN <<>>
      ELSE SubSeq(s, 1, CHOOSE i \in keep : \A j \in keep : j <= i)

IsTitleMapOf(m, columns) ==
  /\ DictKeys(m) = {columns[i].id : i \in 1..Len(columns)}
  /\ \A i \in 1..Len(columns) : DictGet(m, columns[i].id) = columns[i].title

\* the reverse map: each title with its column id
IsIdMapOf(m, columns) ==
  /\ DictKeys(m) = {columns[i].title : i \in 1..Len(columns)}
  /\ \A i \in 1..Len(columns) : DictGet(m, columns[i].title) = columns[i].id

\* C19: with the columns of a board unchanged, under every interleaving of
\* the callers each access that returns gives the map of the board's columns
\* (get_column_id_map its reverse), so any two accesses of the same kind to
\* the same board return equal maps, earlier or later; the cache holds that
\* map once an access has stored it, although several callers may have
\* fetched it.
C19_CacheConverges ==
  /\ \A i \in 1..Len(observations) :
       ~observations[i].raised =>
         /\ IF observations[i].kind = "get_column_title_map"
            THEN IsTitleMapOf(observations[i].value, board_columns[observations[i].board])
            ELSE IsIdMapOf(observations[i].value, board_columns[observations[i].board])
         /\ title_map_cache[observations[i].board].present
         /\ \A j \in 1..Len(observations) :
              (/\ ~observations[j].raised
               /\ observations[j].board = observations[i].board
               /\ observations[j].kind = observations[i].kind) =>
                observations[j].value = observations[i].value
  /\ \A b \in Boards :
       title_map_cache[b].present => IsTitleMapOf(title_map_cache[b].value, board_columns[b])

\* two callers both fetched the map of a board with columns, and both returned it
C19_Witness ==
  \E i, j \in 1..Len(observations) :
    /\ i < j
    /\ observations[i].thread # observations[j].thread
    /\ observations[i].board = observations[j].board
    /\ observations[i].fetched /\ ~observations[i].raised
    /\ observations[j].fetched /\ ~observations[j].raised
    /\ observations[i].kind = "get_column_title_map"
    /\ observations[j].kind = "get_column_title_map"
    /\ Len(observations[i].value) = 3

\* the outcome of a call run alone with the same arguments and the same
\* outcome of llm.parse
RunAlone(call) ==
  LET started == call_started(call.op, call.schema_type, call.text, call.existing_data)
  IN  IF started.pc = "raised" THEN started
      ELSE IF call.provider \in ProviderExceptions
      THEN call_provider_raised(started, call.provider)
      ELSE call_finished(started, call.resp)

C21_ExistingDataKept ==
  /\ [][pc # "idle" => existing_data' = existing_data]_vars
  /\ [](pc = "returned" /\ op = "extract_with_update" =>
          /\ result.alias_dict = model_dump_by_alias(schema_type, result.obj)
          /\ DictKeys(result.alias_dict) = Aliases[schema_type]
          /\ KeyList(result.obj) = [i \in 1..Len(DATA_MODEL_MAP[schema_type]) |->
                                      DATA_MODEL_MAP[schema_type][i].name])

C21_Witness ==
  /\ pc = "returned"
  /\ op = "extract_with_update"
  /\ DictHas(existing_data, <<"T","a","g","s">>)
  /\ ~DictHas(result.alias_dict, <<"T","a","g","s">>)
  /\ change_metadata.total_changes > 0

\* the lifecycle records of the two methods
StartedEvent ==
  [o \in FullOps |->
     IF o = "extract" THEN "extraction started" ELSE "update extraction started"]

SucceededEvent ==
  [o \in FullOps |->
     IF o = "extract" THEN "extraction succeeded" ELSE "update extraction succeeded"]

FailureEvents ==
  [o \in FullOps |->
     IF o = "extract"
     THEN {"llm.parse raised an exception", "llm returned no parseable object",
           "schema validation failed"}
     ELSE {"llm.parse raised an exception during update",
           "llm returned no parseable object during update",
           "schema validation failed during update"}]

\* positions of the terminal records in the log
TerminalRecords ==
  {i \in 1..Len(log) : log[i].msg \in FailureEvents[op] \cup {SucceededEvent[op]}}

\* C22: a call of extract or extract_with_update on a registered schema
\* logs its started record first; while it runs it has logged no terminal
\* record, and when it has ended it has logged exactly one, the succeeded
\* record or a failure record; the succeeded record is logged only by a call
\* that returned a validated object; the failure records of the two methods
\* have different messages.
C22_Lifecycle ==
  (op \in FullOps /\ schema_type \in SchemaType) =>
    /\ log[1].msg = StartedEvent[op]
    /\ \A i \in 2..Len(log) : log[i].msg # StartedEvent[op]
    /\ Cardinality(TerminalRecords) = IF Ended THEN 1 ELSE 0
    /\ Logged(SucceededEvent[op]) =>
         (pc = "returned" /\ model_validate(schema_type, resp.parsed).ok)
    /\ FailureEvents["extract"] \cap FailureEvents["extract_with_update"] = {}

(***************************************************************************)
(* Properties of _format_column_value (SpecFormat).                        *)
(***************************************************************************)
\* the items of a list value that are not None, in the order of the list
RECURSIVE NonNullItems(_)
NonNullItems(xs) ==
  IF xs = <<>> THEN <<>>
  ELSE IF Head(xs).tag = "none" THEN NonNullItems(Tail(xs))
  ELSE <<Head(xs)>> \o NonNullItems(Tail(xs))

\* C23: a value is formatted by its type: None gives the empty value; a list
\* gives the labels holding the string forms of exactly its non-None items in
\* order, an empty list the empty value; a bool gives the checked marker
\* "true" or "false" and never a number's string; any other number or string
\* gives its string form.
C23_FormattedByType ==
  fn_ret # NotCalled =>
    CASE fn_arg.tag = "none" -> fn_ret = FormattedStr("")
      [] fn_arg.tag = "list" ->
           IF fn_arg.l = <<>> THEN fn_ret = FormattedStr("")
           ELSE /\ fn_ret.kind = "labels"
                /\ Len(fn_ret.l) = Len(NonNullItems(fn_arg.l))
                /\ \A i \in 1..Len(fn_ret.l) : fn_ret.l[i] = str(NonNullItems(fn_arg.l)[i])
      [] fn_arg.tag = "bool" ->
           /\ fn_ret.kind = "checked"
           /\ fn_ret.s = (IF fn_arg.n = 1 THEN "true" ELSE "false")
      [] fn_arg.tag = "int" -> fn_ret = FormattedStr(IntStr(fn_arg.n))
      [] fn_arg.tag = "str" -> fn_ret = FormattedStr(fn_arg.s)

C23_Witness ==
  /\ fn_arg = PyList(<<PyNone, PyInt(25)>>)
  /\ fn_ret = FormattedLabels(<<"25">>)

C25_ChangesDiffer ==
  pc = "compare_returned" =>
    /\ \A key \in DictKeys(change_metadata.changes) :
         DictAt(change_metadata.changes, key).old # DictAt(change_metadata.changes, key).new
    /\ change_metadata.total_changes =
         Cardinality({key \in all_keys(normalized_existing_data, alias_dict) :
                        DictGet(normalized_existing_data, key) # DictGet(alias_dict, key)})

\* C26: a key of the prior record that the new record does not hold is never
\* reported added; its prior value is compared with None: a non-None prior
\* value makes it updated, with the pair (prior value, None), and a None
\* prior value makes it unchanged, with no pair.
C26_PriorOnlyKey ==
  pc = "compare_returned" =>
    \A key \in DictKeys(normalized_existing_data) \ DictKeys(alias_dict) :
      /\ key \notin Range(change_metadata.added_fields)
      /\ IF DictAt(normalized_existing_data, key) # PyNone
         THEN /\ key \in Range(change_metadata.updated_fields)
              /\ key \notin Range(change_metadata.unchanged_fields)
              /\ DictHas(change_metadata.changes, key)
              /\ DictAt(change_metadata.changes, key) =
                   [old |-> DictAt(normalized_existing_data, key), new |-> PyNone]
         ELSE /\ key \in Range(change_metadata.unchanged_fields)
              /\ key \notin Range(change_metadata.updated_fields)
              /\ ~DictHas(change_metadata.changes, key)

C26_Witness ==
  /\ pc = "compare_returned"
  /\ normalized_existing_data = <<[k |-> A_Notes, v |-> PyStr("foo")], [k |-> A_City, v |-> PyNone]>>
  /\ alias_dict = <<[k |-> A_Email, v |-> PyStr("a@x.com")]>>
  /\ Range(change_metadata.updated_fields) = {A_Notes}
  /\ Range(change_metadata.unchanged_fields) = {A_City}

(***************************************************************************)
(* Properties of the field selectors of the targeted extractors (Spec).    *)
(***************************************************************************)
\* the alias the name selector is expected to pick
OwnNameAlias(st) == IF st = "deal_flow" THEN A_Company_name ELSE A_Name

\* C27: the selector picks the first field, in declaration order, whose
\* lowercased alias equals or ends with "name" (name selector) or contains
\* "email" (email selector); for each of the four schemas the name selector
\* picks "Name" or "Company name" and the email selector picks "Email", never
\* "Sent Email?", and the targeted call asks the provider for that field.
C27_SelectorPicksFirst ==
  /\ \A st \in SchemaType :
       LET fields == DATA_MODEL_MAP[st]
           n == name_target[st]
           e == email_target[st]
       IN  /\ n \in 1..Len(fields)
           /\ EndsWith(lower(fields[n].alias), <<"n","a","m","e">>)
           /\ \A j \in 1..(n - 1) : ~EndsWith(lower(fields[j].alias), <<"n","a","m","e">>)
           /\ fields[n].alias = OwnNameAlias(st)
           /\ e \in 1..Len(fields)
           /\ Contains(lower(fields[e].alias), <<"e","m","a","i","l">>)
           /\ \A j \in 1..(e - 1) : ~Contains(lower(fields[j].alias), <<"e","m","a","i","l">>)
           /\ fields[e].alias = A_Email
           /\ fields[e].alias # A_Sent_Email
  /\ (op \in TargetedOps /\ schema_type \in SchemaType /\ pc # "idle") =>
       /\ user_prompt = target_prompt_for(IF op = "extract_entity_name_only"
                                          THEN OwnNameAlias(schema_type) ELSE A_Email, text)
       /\ (pc = "returned" /\ resp.has_parsed) =>
            result.value = DictGet(resp.parsed, IF op = "extract_entity_name_only"
                                                THEN OwnNameAlias(schema_type) ELSE A_Email)

C27_Witness ==
  /\ pc = "returned"
  /\ op = "extract_entity_email_only"
  /\ schema_type = "lp_main_dashboard"
  /\ \E i \in 1..Len(DATA_MODEL_MAP["lp_main_dashboard"]) :
       DATA_MODEL_MAP["lp_main_dashboard"][i].alias = A_Sent_Email
  /\ result.value = PyStr("text")

(***************************************************************************)
(* Properties of create_item and update_item (SpecUpsert).                 *)
(***************************************************************************)
\* the titles of column_data that resolve to a column id
ResolvedTitles(column_data) == {title \in DictKeys(column_data) : DictHas(column_id_map, title)}

MutationsBy(u) == {i \in 1..Len(mutations) : mutations[i].by = u}

\* the item a call creates is one its own lookup key finds
CreatesMatching(call) ==
  IF call.schema_type \in {"deal_flow", "vc_fund"}
  THEN call.item_name = call.lookup_key
  ELSE DictGet(call.column_data, A_Email) = PyStr(call.lookup_key)

\* C28: a call of upsert_item that returns has sent exactly one mutation: an
\* update of the first item found, with was_created = False, iff a lookup key
\* was given and the lookup found an item, and otherwise a create, with
\* was_created = True; and when two calls with the same schema type and
\* lookup key have returned, starting from a store with no matching item,
\* exactly one of them created an item, the other updated that item, and the
\* store holds a single matching item.
C28_UpsertOnce ==
  /\ \A u \in Upserters :
       upserts[u].pc = "returned" =>
         /\ Cardinality(MutationsBy(u)) = 1
         /\ \A i \in MutationsBy(u) :
              /\ mutations[i].item_id = upserts[u].item
              /\ (mutations[i].kind = "create_item") = upserts[u].was_created
              /\ (mutations[i].kind = "change_multiple_column_values") = ~upserts[u].was_created
         /\ ~upserts[u].was_created <=> (upserts[u].lookup_key # "" /\ upserts[u].existing_item # "")
         /\ ~upserts[u].was_created => upserts[u].item = upserts[u].existing_item
  /\ \A u, w \in Upserters :
       ( /\ u # w
         /\ upserts[u].pc = "returned" /\ upserts[w].pc = "returned"
         /\ upserts[u].schema_type = upserts[w].schema_type
         /\ upserts[u].lookup_key = upserts[w].lookup_key
         /\ upserts[u].lookup_key # ""
         /\ CreatesMatching(upserts[u]) /\ CreatesMatching(upserts[w]) ) =>
           /\ upserts[u].was_created # upserts[w].was_created
           /\ upserts[u].item = upserts[w].item
           /\ Len(items_for(store, upserts[u].schema_type, upserts[u].lookup_key)) = 1

(***************************************************************************)
(* Further properties of _normalize_existing_data (SpecNormalize).         *)
(***************************************************************************)
\* the positions of the input entries stored under an output key
StoredUnder(key) ==
  {i \in 1..Len(existing_data) : normalize_key(schema_type, existing_data[i].k) = key}

\* C30: every key of the output of normalize is an alias of the schema or a
\* key of the input; the output has at most as many entries as the input,
\* and strictly fewer exactly when two distinct input keys resolve to the
\* same output key; such an output key holds the value of the input key that
\* comes later in the iteration order, and the earlier value is lost.
C30_NormalizeKeys ==
  pc = "normalize_returned" =>
    LET out == normalized_existing_data
        colliding == \E i, j \in 1..Len(existing_data) :
                       /\ i # j
                       /\ normalize_key(schema_type, existing_data[i].k) =
                            normalize_key(schema_type, existing_data[j].k)
    IN  /\ DictKeys(out) \subseteq Aliases[schema_type] \cup DictKeys(existing_data)
        /\ Len(out) <= Len(existing_data)
        /\ Cardinality(DictKeys(out)) = Len(out)
        /\ (Len(out) < Len(existing_data)) <=> colliding
        /\ \A key \in DictKeys(out) :
             /\ StoredUnder(key) # {}
             /\ DictAt(out, key) =
                  existing_data[CHOOSE i \in StoredUnder(key) : \A j \in StoredUnder(key) : j <= i].v

C30_Witness ==
  /\ pc = "normalize_returned"
  /\ Len(existing_data) = 2
  /\ existing_data[1].k \in Aliases[schema_type]
  /\ existing_data[2].k = CaseSpaceVariant(existing_data[1].k)
  /\ normalized_existing_data = <<[k |-> existing_data[1].k, v |-> existing_data[2].v]>>
  /\ existing_data[1].v # existing_data[2].v

====
